---------------------------- MODULE Spec2Model ----------------------------
(***************************************************************************)
(* Model of the crawl-and-aggregate pipeline of feishu-docs-stats          *)
(* (src/stats.py): walk_tree_concurrent, batcher, get_doc_info,            *)
(* get_wiki_info, parse_doc_url and get_document_statistics_async_v2.      *)
(*                                                                         *)
(* asyncio runs the tasks on one event loop, so a task runs without        *)
(* interruption between two awaits that really suspend.  Queue.put on an   *)
(* unbounded asyncio.Queue and Queue.get on a non-empty one never suspend; *)
(* the suspension points of a worker are therefore q_parents.get() on an   *)
(* empty queue, the throttler's acquire and the remote call of             *)
(* get_children.  Each action below is one such uninterrupted stretch.     *)
(*                                                                         *)
(* Further: the shared Throttler against a clock, create_jwt_token and     *)
(* verify_jwt_token (src/auth_utils.py) and the tunnel functions of        *)
(* src/ngrok_utils.py.                                                     *)
(***************************************************************************)
EXTENDS Integers, Sequences, FiniteSets, Bags, TLC

VARIABLES
    parent,      \* the remote hierarchy: parent[n] is the parent of node n, 0 for a root
    roots,       \* walk_tree_concurrent's argument: a list of nodes (None for an unresolved root)
    q_parents,   \* asyncio.Queue of containers waiting for a worker
    q_nodes,     \* asyncio.Queue of results, None being the end marker
    unfinished,  \* q_parents' count of unfinished tasks (put: +1, task_done: -1)
    workers,     \* the worker tasks created so far: a bag of [pc, node]
    waiter,      \* the wait_for_completion task
    gen,         \* the generator walk_tree_concurrent itself
    yielded,     \* the nodes the generator has yielded, in order
    listFailed,  \* history: some child listing has failed
    list_log,    \* history: the listings done, a bag of [node, failAt]
    b_in,        \* batcher: the input still to come (stand-alone batcher runs)
    b_size,      \* batcher: batch_size
    batch,       \* batcher: the local list batch
    emitted,     \* batcher: the batches yielded so far
    b_pc,        \* batcher: "run", "done" (ended normally) or "raised"
    consumed,    \* history: the items batcher has taken from its input
    d_docs,      \* get_doc_info: the argument docs of the last call
    d_res,       \* get_doc_info: the list returned by the last call
    d_dropped,   \* get_doc_info: the docs that took the 'Doc failed' branch
    d_kept,      \* get_doc_info: the docs a record was appended for, in order
    d_stats,     \* get_doc_info: stats_dict of the last call
    d_metas,     \* get_doc_info: metas of the last call
    t_obj,       \* DocumentStats.to_dict: the object
    t_dict,      \* DocumentStats.to_dict: the dict returned
    urls,        \* get_document_statistics_async_v2: the argument urls
    docs,        \* ... its local docs
    wiki_infos,  \* ... the list res of get_wiki_info / wiki_infos
    infos,       \* ... the returned list
    pc,          \* ... where the call stands
    calls,       \* history: the identity lists handed to get_doc_info
    outcomes,    \* history: what each of these calls met and gave
    ret,         \* ... the tuple it returns
    now,         \* the clock (time.monotonic, datetime.now), in ticks
    throttler,   \* the shared Throttler: rate_limit, period and its _task_logs
    permits,     \* history: the times at which a permit was acquired from the throttler
    requests,    \* history: the remote calls started, a bag of [kind, at]
    jwt_secret,  \* auth_config.jwt_secret
    jwt_token,   \* the JWT handed to verify_jwt_token
    lifetime,    \* history: expires_in of the create_jwt_token call that made it
    verified,    \* the time and the result of verify_jwt_token
    ngrok_manager, \* the global NgrokManager: port, tunnel, public_url
    info,        \* the dict last returned by get_tunnel_status
    connects,    \* history: the number of ngrok.connect calls
    MAX_CONCURRENT_REQUESTS, \* the module global of doc_stats_utils
    BATCH_SIZE,  \* the module global of doc_stats_utils
    handlers,    \* the running handle_batch_stats_request calls: position and locals
    all_doc_stats, \* get_document_statistics(_async): the list as collected
    statistics,  \* ... the list it returns
    session,     \* Flask's session of each browser: its 'auth_state' entry
    response,    \* what the last auth_callback met and answered
    m_docs,      \* batch_get_meta / batch_get_meta_async: the argument docs
    m_outcomes,  \* the outcome of the request of each chunk
    m_sync,      \* the list returned by batch_get_meta
    m_async      \* the list returned by batch_get_meta_async

walkVars  == <<parent, roots, q_parents, q_nodes, unfinished, workers, waiter, gen,
               yielded, listFailed, list_log>>
batchVars == <<b_in, b_size, batch, emitted, b_pc, consumed>>
docVars   == <<d_docs, d_res, d_dropped, d_kept, d_stats, d_metas, t_obj, t_dict>>
v2Vars    == <<urls, docs, wiki_infos, infos, pc, calls, outcomes, ret>>
thrVars   == <<now, throttler, permits, requests>>
jwtVars   == <<jwt_secret, jwt_token, lifetime, verified>>
ngrokVars == <<ngrok_manager, info, connects>>
cfgVars   == <<MAX_CONCURRENT_REQUESTS, BATCH_SIZE, handlers>>
sortVars  == <<all_doc_stats, statistics>>
authVars  == <<session, response>>
metaVars  == <<m_docs, m_outcomes, m_sync, m_async>>
utilVars  == <<cfgVars, sortVars, authVars, metaVars>>
appVars   == <<jwtVars, ngrokVars, utilVars>>
vars      == <<walkVars, batchVars, docVars, v2Vars, thrVars, appVars>>

-----------------------------------------------------------------------------
(* Bounds *)
MaxTime == 3        \* ticks of the clock in a timed run
RateLimit == 1      \* rate_limit of the throttler of a timed run (100, scaled down)
Period == 2         \* its period in ticks (60 s, scaled down)
MaxNodes == 4       \* nodes of a hierarchy
PageSize == 2       \* children per page of a child listing (page_size(50), scaled down)
MaxLen == 5         \* items of a stream given to batcher alone
MaxBatchSize == 3   \* batch_size given to batcher alone
MaxDocs == 2        \* identities of a list given to get_doc_info alone
MaxLike == 1        \* upstream like_count lies in -MaxLike..MaxLike
MaxUv == 2          \* upstream uv lies in 1..MaxUv
Minute == 3         \* ticks of the clock in a minute (a tick is 20 s)
MaxExpires == 7     \* longest lifetime asked of create_jwt_token, in ticks
MaxClock == 8       \* ticks of the clock in a run of the JWT functions
MaxConnects == 2    \* ngrok.connect calls in a run of the tunnel functions
MaxWikiNodes == 3   \* nodes of the hierarchy in a run of the entry point
MaxFlat == 2        \* further plain-document URLs at the end of a list of URLs
MaxUrls == 2        \* URLs of a list given to get_document_statistics_async_v2
BatchSize == 2      \* batch_size = 200 of get_wiki_info and the 200-entry ceiling of
                    \* batch_get_meta_async, scaled down

(* Python's None: as a node, and as any other object *)
None == 0
PyNone == [none |-> TRUE]

\* doc_stats_utils.MAX_CONCURRENT_REQUESTS and BATCH_SIZE as the module sets them
InitialMaxConcurrent == 10
InitialBatchSize == 20

Range(s) == {s[i] : i \in DOMAIN s}

RECURSIVE SetToSeq(_)
\* the elements of a finite set of integers in ascending order
SetToSeq(S) ==
    IF S = {} THEN <<>>
    ELSE LET m == CHOOSE x \in S : \A y \in S : x <= y
         IN  <<m>> \o SetToSeq(S \ {m})

\* a Python str
Str(s) == [str |-> s]

\* NgrokManager.__init__
NgrokManager(port) == [port |-> port, tunnel |-> PyNone, public_url |-> PyNone]

-----------------------------------------------------------------------------
(* The remote document platform: wiki nodes *)

\* every forest on nodes 1..n: each node has one parent, of smaller number, or none
Forests == UNION {{f \in [1..n -> 0..MaxNodes] : \A k \in 1..n : f[k] < k} : n \in 0..MaxNodes}

\* (a listing that returns the nodes below n at every depth)
RECURSIVE Below(_, _, _)
Below(par, c, n) == c # 0 /\ (par[c] = n \/ Below(par, par[c], n))
DescendantsOf(par, n) == SetToSeq({c \in DOMAIN par : Below(par, c, n)})

\* (a worker that creates no task for a container child)
NoNewWorkers(k) == EmptyBag

NodesOf(par)       == DOMAIN par
ChildrenOf(par, n) == SetToSeq({c \in DOMAIN par : par[c] = n})
RootsOf(par)       == SetToSeq({c \in DOMAIN par : par[c] = 0})

\* Node.node_token, Node.obj_token and Node.obj_type of node n: the token of
\* the position in the wiki and the identity of the document behind it
NodeTokens == <<"n1", "n2", "n3", "n4", "n5", "n6">>
ObjTokens  == <<"o1", "o2", "o3", "o4", "o5", "o6">>
node_token(n) == NodeTokens[n]
obj_token(n)  == ObjTokens[n]
obj_type(n)   == "docx"

\* Node.has_child, as the platform reports it
has_child(par, n) == \E c \in DOMAIN par : par[c] = n

\* the number of page requests a complete listing of k children takes
PagesFor(k) == IF k = 0 THEN 1 ELSE (k + PageSize - 1) \div PageSize

Min(a, b) == IF a < b THEN a ELSE b

\* (a listing that gives up the items of its earlier pages when a request fails)
get_children_or_nothing(par, n, failAt) ==
    IF failAt = 0 THEN ChildrenOf(par, n) ELSE <<>>

\* get_children: the pages are requested one after the other and their items
\* appended to all_nodes; a failed request (error response or exception) breaks
\* the loop and what earlier pages returned is the result.  failAt is the
\* number of the request that fails, 0 when none does.
get_children(par, n, failAt) ==
    LET all == ChildrenOf(par, n)
    IN  IF failAt = 0 THEN all
        ELSE SubSeq(all, 1, Min(Len(all), (failAt - 1) * PageSize))

\* the number of page requests get_children makes when its request number
\* failAt fails (0: none fails)
PageRequests(par, n, failAt) ==
    IF failAt = 0 THEN PagesFor(Len(ChildrenOf(par, n))) ELSE failAt

-----------------------------------------------------------------------------
(* The throttler and the remote calls *)

\* throttler = Throttler(rate_limit=100, period=60)
rate_limit == 100
period == 60

\* asyncio_throttle.Throttler: a new one has an empty _task_logs
Throttler(limit, per) == [rate_limit |-> limit, period |-> per, task_logs |-> <<>>]

\* Throttler.flush: the entries older than period are dropped from the left
RECURSIVE flush(_, _, _)
flush(task_logs, per, t) ==
    IF task_logs # <<>> /\ t - Head(task_logs) > per
    THEN flush(Tail(task_logs), per, t)
    ELSE task_logs

\* (a throttler whose acquire does not wait for room in _task_logs)
acquire_at_once(th, t) == TRUE

\* Throttler.acquire leaves its loop when, after flush, _task_logs holds fewer
\* than rate_limit entries; until then it sleeps and tries again
acquire_ready(th, t) == Len(flush(th.task_logs, th.period, t)) < th.rate_limit

\* ... and appends the time of the acquisition
acquire(th, t) == [th EXCEPT !.task_logs = Append(flush(th.task_logs, th.period, t), t)]

\* k remote calls of one kind started at time t
Started(kind, k, t) ==
    IF k = 0 THEN EmptyBag ELSE [r \in {[kind |-> kind, at |-> t]} |-> k]

-----------------------------------------------------------------------------
(* walk_tree_concurrent *)

\* The event loop runs tasks until the entry point has returned or raised
\* (handle_stats_request: loop.run_until_complete, then loop.close()).
LoopAlive == pc \notin {"returned", "raised"}

\* the for loop of worker over children: containers go to q_parents, each
\* with a new worker task, leaves go to q_nodes
Containers(par, children) == SelectSeq(children, LAMBDA c : has_child(par, c))

\* (a worker that puts every child on q_nodes, containers included)
LeavesAndContainers(par, children) == children

Leaves(par, children) == SelectSeq(children, LAMBDA c : ~has_child(par, c))

\* k tasks created by asyncio.create_task(worker()), none of them started
NewWorkers(k) ==
    IF k = 0 THEN EmptyBag ELSE [w \in {[pc |-> "get", node |-> None]} |-> k]

\* (a worker that never calls q_parents.task_done())
no_task_done(n) == n

\* q_parents.task_done(): one unfinished task less
task_done(n) == n - 1

\* one worker task w of the bag moves on to the state v
Step(w, v) == (workers (-) SetToBag({w})) (+) SetToBag({v})

\* the body of walk_tree_concurrent up to its loop: add_parent for each root,
\* then the wait_for_completion task is created.  Nothing here suspends.
add_parents(rs) ==
    /\ q_parents' = rs
    /\ unfinished' = Len(rs)
    /\ workers' = NewWorkers(Len(rs))
    /\ waiter' = "join"

\* worker: node = await q_parents.get(); await q_nodes.put(node)
worker_get(w) ==
    /\ LoopAlive
    /\ w.pc = "get"
    /\ q_parents # <<>>
    /\ workers' = Step(w, [pc |-> "throttle", node |-> Head(q_parents)])
    /\ q_parents' = Tail(q_parents)
    /\ q_nodes' = Append(q_nodes, Head(q_parents))
    /\ UNCHANGED <<parent, roots, unfinished, waiter, gen, yielded, listFailed, list_log>>
    /\ UNCHANGED <<batchVars, docVars, v2Vars>>
    /\ UNCHANGED thrVars
    /\ UNCHANGED appVars

\* worker: async with throttler (the permit is acquired, possibly after a
\* wait), then get_children runs up to its first suspension: with a node it
\* sends the request of the first page, with None it has raised before
worker_throttle(w) ==
    /\ LoopAlive
    /\ w.pc = "throttle"
    /\ acquire_ready(throttler, now)
    /\ throttler' = acquire(throttler, now)
    /\ permits' = Append(permits, now)
    /\ requests' = requests (+) Started("children", IF w.node = None THEN 0 ELSE 1, now)
    /\ UNCHANGED now
    /\ workers' = Step(w, [w EXCEPT !.pc = "list"])
    /\ UNCHANGED <<parent, roots, q_parents, q_nodes, unfinished, waiter, gen, yielded,
                   listFailed, list_log>>
    /\ UNCHANGED <<batchVars, docVars, v2Vars>>
    /\ UNCHANGED appVars

\* worker: children = await get_children(node, user_token), the for loop over
\* them and q_parents.task_done().  With node = None get_children raises
\* AttributeError at parent.space_id, outside its try: the task ends there and
\* task_done is never called.
worker_list(w) ==
    /\ LoopAlive
    /\ w.pc = "list"
    /\ IF w.node = None
       THEN /\ workers' = Step(w, [w EXCEPT !.pc = "raised"])
            /\ UNCHANGED <<q_parents, q_nodes, unfinished, listFailed, list_log, requests>>
       ELSE \E failAt \in 0..PagesFor(Len(ChildrenOf(parent, w.node))) :
              LET children == get_children(parent, w.node, failAt)
                  cs       == Containers(parent, children)
              IN  /\ q_parents' = q_parents \o cs
                  /\ q_nodes' = q_nodes \o Leaves(parent, children)
                  /\ workers' = Step(w, [w EXCEPT !.pc = "done"]) (+) NewWorkers(Len(cs))
                  /\ unfinished' = task_done(unfinished + Len(cs))
                  /\ listFailed' = (listFailed \/ failAt # 0)
                  /\ list_log' = list_log (+) SetToBag({[node |-> w.node, failAt |-> failAt]})
                  /\ requests' = requests (+)
                        Started("children", PageRequests(parent, w.node, failAt) - 1, now)
    /\ UNCHANGED <<parent, roots, waiter, gen, yielded>>
    /\ UNCHANGED <<now, throttler, permits>>
    /\ UNCHANGED <<batchVars, docVars, v2Vars>>
    /\ UNCHANGED appVars

\* (a join that returns while tasks are unfinished)
join_at_once(n) == TRUE

\* q_parents.join() returns once the count of unfinished tasks is zero
join(n) == n = 0

\* wait_for_completion: await q_parents.join(); await q_nodes.put(None)
wait_for_completion ==
    /\ LoopAlive
    /\ waiter = "join"
    /\ join(unfinished)
    /\ waiter' = "done"
    /\ q_nodes' = Append(q_nodes, None)
    /\ UNCHANGED <<parent, roots, q_parents, unfinished, workers, gen, yielded, listFailed,
                   list_log>>
    /\ UNCHANGED <<batchVars, docVars, v2Vars>>
    /\ UNCHANGED thrVars
    /\ UNCHANGED appVars

\* the generator is started by its consumer's first request for an item
walk_start ==
    /\ pc = "walk"
    /\ gen = "new"
    /\ add_parents(roots)
    /\ gen' = "loop"
    /\ UNCHANGED <<parent, roots, q_nodes, yielded, listFailed, list_log>>
    /\ UNCHANGED <<batchVars, docVars, v2Vars>>
    /\ UNCHANGED thrVars
    /\ UNCHANGED appVars

\* the generator's loop: item = await q_nodes.get(); None ends the stream,
\* anything else is yielded
walk_item(item) ==
    /\ q_nodes' = Tail(q_nodes)
    /\ IF item = None
       THEN gen' = "ended" /\ UNCHANGED yielded
       ELSE yielded' = Append(yielded, item) /\ UNCHANGED gen
    /\ UNCHANGED <<parent, roots, q_parents, unfinished, workers, waiter, listFailed,
                   list_log>>

\* a consumer that only iterates the generator (async for item in ...)
walk_next ==
    /\ pc = "walk"
    /\ gen = "loop"
    /\ q_nodes # <<>>
    /\ walk_item(Head(q_nodes))
    /\ UNCHANGED <<batchVars, docVars, v2Vars>>
    /\ UNCHANGED thrVars
    /\ UNCHANGED appVars

\* walk_tree_concurrent is handed the roots of a hierarchy, each resolved to
\* its node or, when get_wiki_node failed for it, None
WalkInit ==
    /\ parent \in Forests
    /\ \E unresolved \in SUBSET Range(RootsOf(parent)) :
          roots = [i \in DOMAIN RootsOf(parent) |->
                     IF RootsOf(parent)[i] \in unresolved THEN None ELSE RootsOf(parent)[i]]
    /\ q_parents = <<>> /\ q_nodes = <<>> /\ unfinished = 0
    /\ workers = EmptyBag /\ waiter = "none" /\ gen = "new"
    /\ yielded = <<>> /\ listFailed = FALSE /\ list_log = EmptyBag
    /\ b_in = <<>> /\ b_size = 1 /\ batch = <<>> /\ emitted = <<>>
    /\ b_pc = "idle" /\ consumed = <<>>
    /\ d_docs = <<>> /\ d_res = <<>> /\ d_dropped = <<>> /\ d_kept = <<>>
    /\ d_stats = <<>> /\ d_metas = <<>> /\ t_obj = PyNone /\ t_dict = PyNone
    /\ urls = <<>> /\ docs = <<>> /\ wiki_infos = <<>> /\ infos = <<>>
    /\ pc = "walk" /\ calls = <<>> /\ outcomes = <<>> /\ ret = <<>>
    /\ now = 0 /\ throttler = Throttler(rate_limit, period)
    /\ permits = <<>> /\ requests = EmptyBag
    /\ jwt_secret = "s1" /\ jwt_token = PyNone /\ lifetime = 0 /\ verified = PyNone
    /\ ngrok_manager = NgrokManager(5000) /\ info = PyNone /\ connects = 0
    /\ MAX_CONCURRENT_REQUESTS = InitialMaxConcurrent
    /\ BATCH_SIZE = InitialBatchSize /\ handlers = <<>>
    /\ all_doc_stats = <<>> /\ statistics = PyNone
    /\ session = <<>> /\ response = PyNone
    /\ m_docs = <<>> /\ m_outcomes = <<>> /\ m_sync = PyNone /\ m_async = PyNone

WalkNext ==
    \/ walk_start
    \/ \E w \in BagToSet(workers) : worker_get(w)
    \/ \E w \in BagToSet(workers) : worker_throttle(w)
    \/ \E w \in BagToSet(workers) : worker_list(w)
    \/ wait_for_completion
    \/ walk_next

\* walk_tree_concurrent alone, iterated to its end by a consumer
SpecWalk == WalkInit /\ [][WalkNext]_vars

-----------------------------------------------------------------------------
(* batcher *)

\* Python's truth value of an item of the stream (a Node object is true)
Truthy(item) == item # None

\* len(batch) >= batch_size
BatchFull(b, size) == Len(b) >= size

\* (a batcher that forgets batch = [] after a yield)
KeepBatch(b) == b

\* batch = [] after yield batch
ResetBatch(b) == <<>>

\* the body of the async for: batch.append(item), and the batch is yielded
\* and reset once it holds batch_size items
batcher_append(item) ==
    LET b == Append(batch, item)
    IN  /\ consumed' = Append(consumed, item)
        /\ IF BatchFull(b, b_size)
           THEN emitted' = Append(emitted, b) /\ batch' = ResetBatch(b)
           ELSE batch' = b /\ UNCHANGED emitted

\* after the loop: if batch[0]: yield batch.  batch[0] raises IndexError on an
\* empty batch.
batcher_finish ==
    /\ IF batch = <<>>
       THEN b_pc' = "raised" /\ UNCHANGED emitted
       ELSE /\ b_pc' = "done"
            /\ emitted' = IF Truthy(batch[1]) THEN Append(emitted, batch) ELSE emitted
    /\ UNCHANGED <<batch, consumed>>

\* batcher alone: the next item of the input arrives
batcher_item ==
    /\ b_pc = "run"
    /\ b_in # <<>>
    /\ batcher_append(Head(b_in))
    /\ b_in' = Tail(b_in)
    /\ UNCHANGED <<b_size, b_pc>>
    /\ UNCHANGED <<walkVars, docVars, v2Vars>>
    /\ UNCHANGED thrVars
    /\ UNCHANGED appVars

\* batcher alone: the input is exhausted
batcher_exhausted ==
    /\ b_pc = "run"
    /\ b_in = <<>>
    /\ batcher_finish
    /\ UNCHANGED <<b_in, b_size>>
    /\ UNCHANGED <<walkVars, docVars, v2Vars>>
    /\ UNCHANGED thrVars
    /\ UNCHANGED appVars

\* the streams of at most n items
Streams(n) == UNION {[1..k -> 1..MaxNodes] : k \in 0..n}

BatcherInit ==
    /\ b_in \in Streams(MaxLen)
    /\ b_size \in 1..MaxBatchSize
    /\ batch = <<>> /\ emitted = <<>> /\ b_pc = "run" /\ consumed = <<>>
    /\ parent = <<>> /\ roots = <<>>
    /\ q_parents = <<>> /\ q_nodes = <<>> /\ unfinished = 0
    /\ workers = EmptyBag /\ waiter = "none" /\ gen = "new"
    /\ yielded = <<>> /\ listFailed = FALSE /\ list_log = EmptyBag
    /\ d_docs = <<>> /\ d_res = <<>> /\ d_dropped = <<>> /\ d_kept = <<>>
    /\ d_stats = <<>> /\ d_metas = <<>> /\ t_obj = PyNone /\ t_dict = PyNone
    /\ urls = <<>> /\ docs = <<>> /\ wiki_infos = <<>> /\ infos = <<>>
    /\ pc = "idle" /\ calls = <<>> /\ outcomes = <<>> /\ ret = <<>>
    /\ now = 0 /\ throttler = Throttler(rate_limit, period)
    /\ permits = <<>> /\ requests = EmptyBag
    /\ jwt_secret = "s1" /\ jwt_token = PyNone /\ lifetime = 0 /\ verified = PyNone
    /\ ngrok_manager = NgrokManager(5000) /\ info = PyNone /\ connects = 0
    /\ MAX_CONCURRENT_REQUESTS = InitialMaxConcurrent
    /\ BATCH_SIZE = InitialBatchSize /\ handlers = <<>>
    /\ all_doc_stats = <<>> /\ statistics = PyNone
    /\ session = <<>> /\ response = PyNone
    /\ m_docs = <<>> /\ m_outcomes = <<>> /\ m_sync = PyNone /\ m_async = PyNone

BatcherNext == batcher_item \/ batcher_exhausted

\* batcher alone, over every stream of nodes and every batch_size >= 1
SpecBatcher == BatcherInit /\ [][BatcherNext]_vars

-----------------------------------------------------------------------------
(* get_doc_info and what it calls *)

\* the identities the platform knows: tokens that differ, and one token under
\* two types
DocTokens == {"d1", "d2"}
DocTypes  == {"docx", "sheet"}
RequestDocs == [doc_token : DocTokens, doc_type : DocTypes]

\* a statistics object as get_file_stats returns it
Stats(uvs, likes) == [uv : uvs, like_count : likes]

\* batch_get_stats_async: a dict with one entry per (token, type) of files,
\* the statistics object or None where get_file_stats failed
StatsOutcomes(files, values) == [Range(files) -> values \cup {PyNone}]

\* dict.get
DictGet(d, k) == IF k \in DOMAIN d THEN d[k] ELSE PyNone

\* batch_get_meta_async: [] for an empty list; a list longer than the ceiling
\* is cut to its first entries; an error response or an exception gives [];
\* otherwise the metas the platform answers with (answered: the positions of
\* the request it resolves), each carrying the token and type asked for.
batch_get_meta_async(ds, answered) ==
    LET cut == IF Len(ds) > BatchSize THEN SubSeq(ds, 1, BatchSize) ELSE ds
        pos == SelectSeq([i \in DOMAIN cut |-> i], LAMBDA i : i \in answered)
    IN  [j \in DOMAIN pos |-> [doc_token |-> cut[pos[j]].doc_token,
                               doc_type  |-> cut[pos[j]].doc_type]]

\* meta_dict = {meta.doc_token: meta for meta in metas}: a later meta of the
\* same token replaces an earlier one
meta_dict(metas) ==
    [t \in {metas[i].doc_token : i \in DOMAIN metas} |->
        metas[CHOOSE i \in DOMAIN metas :
                 /\ metas[i].doc_token = t
                 /\ \A j \in DOMAIN metas : metas[j].doc_token = t => j <= i]]

\* Python's max of two integers
PyMax(a, b) == IF a >= b THEN a ELSE b

\* (a record that copies like_count as it comes)
RawLike(like_count) == like_count

\* "like_count": max(stat.like_count, 0)
FloorLike(like_count) == PyMax(like_count, 0)

\* f"https://bytedance.larkoffice.com/{meta.doc_type}/{meta.doc_token}"
DerivedUrl(type, token) ==
    [netloc |-> "bytedance.larkoffice.com", path |-> <<"", type, token>>]

\* the dict appended to res for one doc
doc_record(doc, stat, meta) ==
    [type       |-> meta.doc_type,
     token      |-> meta.doc_token,
     node_token |-> doc.doc_token,
     source_url |-> DerivedUrl(meta.doc_type, meta.doc_token),
     uv         |-> stat.uv,
     like_count |-> FloorLike(stat.like_count)]

\* (a loop that leaves at the first failed doc: break for continue)
RECURSIVE doc_loop_break(_, _, _)
doc_loop_break(ds, stats_dict, md) ==
    IF ds = <<>> THEN [res |-> <<>>, failed |-> <<>>, kept |-> <<>>]
    ELSE LET doc  == Head(ds)
             stat == DictGet(stats_dict, doc)
             meta == DictGet(md, doc.doc_token)
             rest == doc_loop_break(Tail(ds), stats_dict, md)
         IN  IF stat = PyNone \/ meta = PyNone
             THEN [res |-> <<>>, failed |-> <<doc>>, kept |-> <<>>]
             ELSE [res    |-> <<doc_record(doc, stat, meta)>> \o rest.res,
                   failed |-> rest.failed,
                   kept   |-> <<doc>> \o rest.kept]

\* for doc in docs: a doc without statistics or without metadata is printed
\* as 'Doc failed' and skipped, any other gets its record appended to res
RECURSIVE doc_loop(_, _, _)
doc_loop(ds, stats_dict, md) ==
    IF ds = <<>> THEN [res |-> <<>>, failed |-> <<>>, kept |-> <<>>]
    ELSE LET doc  == Head(ds)
             stat == DictGet(stats_dict, doc)
             meta == DictGet(md, doc.doc_token)
             rest == doc_loop(Tail(ds), stats_dict, md)
         IN  IF stat = PyNone \/ meta = PyNone
             THEN [res    |-> rest.res,
                   failed |-> <<doc>> \o rest.failed,
                   kept   |-> rest.kept]
             ELSE [res    |-> <<doc_record(doc, stat, meta)>> \o rest.res,
                   failed |-> rest.failed,
                   kept   |-> <<doc>> \o rest.kept]

\* get_doc_info, given what the two lookups return
get_doc_info(ds, stats_dict, metas) == doc_loop(ds, stats_dict, meta_dict(metas))

\* the remote calls of one get_doc_info: batch_get_stats_async runs one
\* get_file_stats per file, batch_get_meta_async one request unless docs is empty
lookups(ds, t) ==
    Started("stats", Len(ds), t) (+) Started("meta", IF ds = <<>> THEN 0 ELSE 1, t)

\* one call of get_doc_info on ds, under some outcome of the lookups
doc_info_call(ds, values) ==
    \E stats_dict \in StatsOutcomes(ds, values), answered \in SUBSET (1..Len(ds)) :
        LET metas == batch_get_meta_async(ds, answered)
            out   == get_doc_info(ds, stats_dict, metas)
        IN  /\ d_docs' = ds
            /\ d_stats' = stats_dict
            /\ d_metas' = metas
            /\ d_res' = out.res
            /\ d_dropped' = out.failed
            /\ d_kept' = out.kept
            /\ requests' = requests (+) lookups(ds, now)

\* one call of get_doc_info on ds inside a run of the entry point; of the
\* call only its argument, its result and the docs it dropped are kept
doc_info_await(ds, values) ==
    \E stats_dict \in StatsOutcomes(ds, values), answered \in SUBSET (1..Len(ds)) :
        LET metas == batch_get_meta_async(ds, answered)
            out   == get_doc_info(ds, stats_dict, metas)
        IN  /\ d_docs' = ds
            /\ d_res' = out.res
            /\ d_dropped' = out.failed
            /\ UNCHANGED <<d_kept, d_stats, d_metas>>
            /\ requests' = requests (+) lookups(ds, now)
            /\ outcomes' = Append(outcomes,
                   [no_metas |-> metas = <<>>,
                    no_stats |-> \A d \in Range(ds) : stats_dict[d] = PyNone,
                    res      |-> out.res,
                    dropped  |-> out.failed])

\* get_doc_info alone
doc_info ==
    /\ pc = "call"
    /\ doc_info_call(d_docs, Stats({1}, -MaxLike..MaxLike))
    /\ pc' = "returned"
    /\ UNCHANGED <<t_obj, t_dict>>
    /\ UNCHANGED <<urls, docs, wiki_infos, infos, calls, outcomes, ret>>
    /\ UNCHANGED <<now, throttler, permits>>
    /\ UNCHANGED <<walkVars, batchVars>>
    /\ UNCHANGED appVars

\* DocumentStats.to_dict: the fields are copied, like_count through max(.., 0)
to_dict(self) == [self EXCEPT !.like_count = FloorLike(self.like_count)]

to_dict_call ==
    /\ pc = "returned"
    /\ t_dict = PyNone
    /\ \E like \in -MaxLike..MaxLike, u \in 1..MaxUv :
          /\ t_obj' = [uv |-> u, like_count |-> like]
          /\ t_dict' = to_dict([uv |-> u, like_count |-> like])
    /\ UNCHANGED <<d_docs, d_res, d_dropped, d_kept, d_stats, d_metas>>
    /\ UNCHANGED <<walkVars, batchVars, v2Vars>>
    /\ UNCHANGED thrVars
    /\ UNCHANGED appVars

\* the lists of at most n identities
DocLists(n) == UNION {[1..k -> RequestDocs] : k \in 0..n}

DocInfoInit ==
    /\ d_docs \in DocLists(MaxDocs)
    /\ pc = "call"
    /\ d_res = <<>> /\ d_dropped = <<>> /\ d_kept = <<>>
    /\ d_stats = <<>> /\ d_metas = <<>> /\ t_obj = PyNone /\ t_dict = PyNone
    /\ urls = <<>> /\ docs = <<>> /\ wiki_infos = <<>> /\ infos = <<>> /\ calls = <<>> /\ outcomes = <<>> /\ ret = <<>>
    /\ parent = <<>> /\ roots = <<>>
    /\ q_parents = <<>> /\ q_nodes = <<>> /\ unfinished = 0
    /\ workers = EmptyBag /\ waiter = "none" /\ gen = "new"
    /\ yielded = <<>> /\ listFailed = FALSE /\ list_log = EmptyBag
    /\ b_in = <<>> /\ b_size = 1 /\ batch = <<>> /\ emitted = <<>>
    /\ b_pc = "idle" /\ consumed = <<>>
    /\ now = 0 /\ throttler = Throttler(rate_limit, period)
    /\ permits = <<>> /\ requests = EmptyBag
    /\ jwt_secret = "s1" /\ jwt_token = PyNone /\ lifetime = 0 /\ verified = PyNone
    /\ ngrok_manager = NgrokManager(5000) /\ info = PyNone /\ connects = 0
    /\ MAX_CONCURRENT_REQUESTS = InitialMaxConcurrent
    /\ BATCH_SIZE = InitialBatchSize /\ handlers = <<>>
    /\ all_doc_stats = <<>> /\ statistics = PyNone
    /\ session = <<>> /\ response = PyNone
    /\ m_docs = <<>> /\ m_outcomes = <<>> /\ m_sync = PyNone /\ m_async = PyNone

DocInfoNext == doc_info \/ to_dict_call

\* get_doc_info alone, over every list of identities and every outcome of the
\* two lookups, followed by one DocumentStats.to_dict
SpecDocInfo == DocInfoInit /\ [][DocInfoNext]_vars

-----------------------------------------------------------------------------
(* parse_doc_url, get_wiki_info and get_document_statistics_async_v2 *)

\* A URL is what urlparse makes of it: its netloc and its path split at '/'.
Url(netloc, parts) == [netloc |-> netloc, path |-> parts]

WikiUrl(n) == Url("bytedance.larkoffice.com", <<"", "wiki", node_token(n)>>)
DocUrl(t)  == Url("bytedance.sg.larkoffice.com", <<"", "docx", t>>)
ForeignUrl == Url("example.com", <<"", "docx", "d1">>)
ShortUrl   == Url("bytedance.larkoffice.com", <<"", "wiki">>)

\* parsed.netloc.endswith('larkoffice.com')
EndsWithLarkoffice(netloc) ==
    netloc \in {"larkoffice.com", "bytedance.larkoffice.com", "bytedance.sg.larkoffice.com"}

\* parse_doc_url: None for a foreign domain or a path of fewer than two
\* non-empty parts, else the RequestDoc of the first two parts
parse_doc_url(url) ==
    LET path_parts == SelectSeq(url.path, LAMBDA part : part # "")
    IN  IF ~EndsWithLarkoffice(url.netloc) THEN PyNone
        ELSE IF Len(path_parts) < 2 THEN PyNone
        ELSE [doc_type |-> path_parts[1], doc_token |-> path_parts[2]]

\* get_wiki_node: the node of that token, None when the request fails or the
\* platform knows no such node
get_wiki_node(par, token, ok) ==
    IF ok /\ \E n \in DOMAIN par : node_token(n) = token
    THEN CHOOSE n \in DOMAIN par : node_token(n) = token
    ELSE None

\* RequestDoc.builder().doc_token(doc.obj_token).doc_type(doc.obj_type)
node_doc(n) == [doc_token |-> obj_token(n), doc_type |-> obj_type(n)]

\* the statistics the platform may answer with in a run of the entry point
V2Stats == Stats(1..MaxUv, {0})

\* infos = wiki_infos + doc_infos
Combine(wikis, flats) == wikis \o flats

\* docs = [parse_doc_url(url) for url in urls]; list(map(.., filter(..)))
\* evaluates doc.doc_type for every doc and raises AttributeError on None
v2_parse ==
    /\ pc = "start"
    /\ docs' = [i \in DOMAIN urls |-> parse_doc_url(urls[i])]
    /\ pc' = IF \E i \in DOMAIN urls : parse_doc_url(urls[i]) = PyNone
             THEN "raised" ELSE "resolve"
    /\ UNCHANGED <<urls, wiki_infos, infos, calls, outcomes, ret>>
    /\ UNCHANGED <<walkVars, batchVars, docVars>>
    /\ UNCHANGED thrVars
    /\ UNCHANGED appVars

\* get_wiki_info: roots = [await get_wiki_node(token, user_token) ...], then
\* the generator and batcher(async_gen, batch_size = 200) are created
v2_resolve ==
    /\ pc = "resolve"
    /\ LET wikis == SelectSeq(docs, LAMBDA doc : doc.doc_type = "wiki")
       IN  \E failed \in SUBSET DOMAIN wikis :
              roots' = [i \in DOMAIN wikis |->
                          get_wiki_node(parent, wikis[i].doc_token, i \notin failed)]
    /\ b_size' = BatchSize /\ b_pc' = "run"
    /\ pc' = "walk"
    /\ UNCHANGED <<urls, docs, wiki_infos, infos, calls, outcomes, ret>>
    /\ UNCHANGED <<parent, q_parents, q_nodes, unfinished, workers, waiter, gen, yielded,
                   listFailed, list_log>>
    /\ UNCHANGED <<b_in, batch, emitted, consumed>>
    /\ UNCHANGED docVars
    /\ requests' = requests (+)
          Started("node", Len(SelectSeq(docs, LAMBDA doc : doc.doc_type = "wiki")), now)
    /\ UNCHANGED <<now, throttler, permits>>
    /\ UNCHANGED appVars

\* the loop of get_wiki_info takes a node from the generator through batcher;
\* the batch is not full yet
v2_item ==
    /\ pc = "walk" /\ gen = "loop" /\ q_nodes # <<>>
    /\ Head(q_nodes) # None
    /\ ~BatchFull(Append(batch, Head(q_nodes)), b_size)
    /\ walk_item(Head(q_nodes))
    /\ batcher_append(Head(q_nodes))
    /\ UNCHANGED <<b_in, b_size, b_pc>>
    /\ UNCHANGED <<docVars, v2Vars>>
    /\ UNCHANGED thrVars
    /\ UNCHANGED appVars

\* ... the node fills the batch: batcher yields it, get_doc_info is awaited
\* on its docs and res += infos
v2_batch ==
    /\ pc = "walk" /\ gen = "loop" /\ q_nodes # <<>>
    /\ Head(q_nodes) # None
    /\ BatchFull(Append(batch, Head(q_nodes)), b_size)
    /\ walk_item(Head(q_nodes))
    /\ batcher_append(Head(q_nodes))
    /\ LET ds == [i \in DOMAIN Append(batch, Head(q_nodes)) |->
                    node_doc(Append(batch, Head(q_nodes))[i])]
       IN  /\ doc_info_await(ds, V2Stats)
           /\ calls' = Append(calls, ds)
    /\ wiki_infos' = wiki_infos \o d_res'
    /\ UNCHANGED <<b_in, b_size, b_pc>>
    /\ UNCHANGED <<t_obj, t_dict>>
    /\ UNCHANGED <<urls, docs, infos, pc, ret>>
    /\ UNCHANGED <<now, throttler, permits>>
    /\ UNCHANGED appVars

\* ... the generator ends and batcher runs its last statement; IndexError
\* leaves get_wiki_info and get_document_statistics_async_v2
v2_end ==
    /\ pc = "walk" /\ gen = "loop" /\ q_nodes # <<>>
    /\ Head(q_nodes) = None
    /\ walk_item(Head(q_nodes))
    /\ batcher_finish
    /\ IF b_pc' = "raised"
       THEN /\ pc' = "raised"
            /\ UNCHANGED <<wiki_infos, calls, outcomes, requests>>
            /\ UNCHANGED <<d_docs, d_res, d_dropped, d_kept, d_stats, d_metas>>
       ELSE /\ pc' = "flat"
            /\ IF emitted' = emitted
               THEN /\ UNCHANGED <<wiki_infos, calls, outcomes, requests>>
                    /\ UNCHANGED <<d_docs, d_res, d_dropped, d_kept, d_stats, d_metas>>
               ELSE LET ds == [i \in DOMAIN batch |-> node_doc(batch[i])]
                    IN  /\ doc_info_await(ds, V2Stats)
                        /\ calls' = Append(calls, ds)
                        /\ wiki_infos' = wiki_infos \o d_res'
    /\ UNCHANGED <<b_in, b_size>>
    /\ UNCHANGED <<t_obj, t_dict>>
    /\ UNCHANGED <<urls, docs, infos, ret>>
    /\ UNCHANGED <<now, throttler, permits>>
    /\ UNCHANGED appVars

\* non_wikis, doc_infos = await get_doc_info(non_wikis, user_token),
\* infos = wiki_infos + doc_infos, return infos, None
v2_flat ==
    /\ pc = "flat"
    /\ LET non_wikis == SelectSeq(docs, LAMBDA doc : doc.doc_type # "wiki")
       IN  /\ doc_info_await(non_wikis, V2Stats)
           /\ calls' = Append(calls, non_wikis)
    /\ infos' = Combine(wiki_infos, d_res')
    /\ ret' = <<infos', PyNone>>
    /\ pc' = "returned"
    /\ UNCHANGED <<urls, docs, wiki_infos>>
    /\ UNCHANGED <<t_obj, t_dict>>
    /\ UNCHANGED <<now, throttler, permits>>
    /\ UNCHANGED <<walkVars, batchVars>>
    /\ UNCHANGED appVars

\* the URLs a caller may give: of wiki nodes, of a plain document, of a
\* foreign site and without a token
Urls(par) == {WikiUrl(n) : n \in DOMAIN par} \cup {DocUrl("d1"), ForeignUrl, ShortUrl}

V2Init ==
    /\ parent \in {f \in Forests : Len(f) <= MaxWikiNodes}
    /\ urls \in {head \o [i \in 1..n |-> DocUrl("d2")] :
                   head \in UNION {[1..k -> Urls(parent)] : k \in 0..MaxUrls},
                   n \in 0..MaxFlat}
    /\ pc = "start"
    /\ docs = <<>> /\ wiki_infos = <<>> /\ infos = <<>> /\ calls = <<>> /\ outcomes = <<>> /\ ret = <<>>
    /\ roots = <<>>
    /\ q_parents = <<>> /\ q_nodes = <<>> /\ unfinished = 0
    /\ workers = EmptyBag /\ waiter = "none" /\ gen = "new"
    /\ yielded = <<>> /\ listFailed = FALSE /\ list_log = EmptyBag
    /\ b_in = <<>> /\ b_size = 1 /\ batch = <<>> /\ emitted = <<>>
    /\ b_pc = "idle" /\ consumed = <<>>
    /\ d_docs = <<>> /\ d_res = <<>> /\ d_dropped = <<>> /\ d_kept = <<>>
    /\ d_stats = <<>> /\ d_metas = <<>> /\ t_obj = PyNone /\ t_dict = PyNone
    /\ now = 0 /\ throttler = Throttler(rate_limit, period)
    /\ permits = <<>> /\ requests = EmptyBag
    /\ jwt_secret = "s1" /\ jwt_token = PyNone /\ lifetime = 0 /\ verified = PyNone
    /\ ngrok_manager = NgrokManager(5000) /\ info = PyNone /\ connects = 0
    /\ MAX_CONCURRENT_REQUESTS = InitialMaxConcurrent
    /\ BATCH_SIZE = InitialBatchSize /\ handlers = <<>>
    /\ all_doc_stats = <<>> /\ statistics = PyNone
    /\ session = <<>> /\ response = PyNone
    /\ m_docs = <<>> /\ m_outcomes = <<>> /\ m_sync = PyNone /\ m_async = PyNone

V2Next ==
    \/ v2_parse
    \/ v2_resolve
    \/ walk_start
    \/ \E w \in BagToSet(workers) : worker_get(w)
    \/ \E w \in BagToSet(workers) : worker_throttle(w)
    \/ \E w \in BagToSet(workers) : worker_list(w)
    \/ wait_for_completion
    \/ v2_item
    \/ v2_batch
    \/ v2_end
    \/ v2_flat

\* get_document_statistics_async_v2 on its own event loop, as
\* handle_stats_request runs it
SpecV2 == V2Init /\ [][V2Next]_vars

-----------------------------------------------------------------------------
(* Claims about walk_tree_concurrent *)

NoDuplicates(s) == \A i, j \in DOMAIN s : s[i] = s[j] => i = j

AllRootsResolved == \A i \in DOMAIN roots : roots[i] # None

\* C1: when every root is a node and no child listing fails, the stream never
\* holds a node twice, and once it has ended it holds every node of the
\* hierarchy (roots, containers, leaves) exactly once, whatever the interleaving
\* of the workers.
C1_WalkYieldsEveryNodeOnce ==
    (AllRootsResolved /\ ~listFailed) =>
        /\ NoDuplicates(yielded)
        /\ Range(yielded) \subseteq NodesOf(parent)
        /\ gen = "ended" =>
              /\ Range(yielded) = NodesOf(parent)
              /\ Len(yielded) = Cardinality(NodesOf(parent))

\* a finished walk, without failures, of a hierarchy with two roots and a
\* container below a container
C1_Witness ==
    /\ AllRootsResolved /\ ~listFailed /\ gen = "ended"
    /\ Len(roots) >= 2
    /\ \E n \in NodesOf(parent) : parent[n] # 0 /\ has_child(parent, n)
    /\ Len(yielded) = Cardinality(NodesOf(parent))

-----------------------------------------------------------------------------
(* Claims about batcher *)

RECURSIVE Flatten(_)
Flatten(bs) == IF bs = <<>> THEN <<>> ELSE Head(bs) \o Flatten(Tail(bs))

Ceil(n, b) == (n + b - 1) \div b

\* C2: the batches emitted so far, concatenated in emission order and followed
\* by the batch being filled, are the items taken from the input, in arrival
\* order; once batcher has ended they are the whole input.
C2_BatchesReproduceInput ==
    /\ b_pc = "run" => Flatten(emitted) \o batch = consumed
    /\ b_pc \in {"done", "raised"} => (b_in = <<>> /\ Flatten(emitted) = consumed)

\* batcher has ended after 5 items with batch_size 2: a full batch was
\* emitted and reset, and a remainder was emitted at the end
C2_Witness ==
    /\ b_pc = "done" /\ b_size = 2 /\ Len(consumed) = 5
    /\ Len(emitted) = 3 /\ Flatten(emitted) = consumed

\* C3 (as claimed): batcher ends normally after ceil(n/b) batches, all of b
\* items but the last, which has 1..b items.
C3_BatchCountAndNormalEnd ==
    b_pc \in {"done", "raised"} =>
        /\ b_pc = "done"
        /\ Len(emitted) = Ceil(Len(consumed), b_size)
        /\ \A i \in DOMAIN emitted :
              /\ i < Len(emitted) => Len(emitted[i]) = b_size
              /\ Len(emitted[i]) \in 1..b_size

-----------------------------------------------------------------------------
(* Claims about get_doc_info *)

\* C4: records returned plus identities dropped equals identities given.
C4_RecordsPlusDroppedIsBatch ==
    pc = "returned" => Len(d_res) + Len(d_dropped) = Len(d_docs)

\* a call that returned a record for one identity and dropped the other
C4_Witness ==
    /\ pc = "returned" /\ Len(d_docs) = 2
    /\ Len(d_res) = 1 /\ Len(d_dropped) = 1

\* C8: like_count of a record, and of a dict made by to_dict, is never
\* negative: it is the upstream value when that is >= 0 and 0 otherwise.
C8_LikeCountFloored ==
    /\ \A i \in DOMAIN d_res :
          LET up == d_stats[d_kept[i]].like_count
          IN  /\ d_res[i].like_count >= 0
              /\ up >= 0 => d_res[i].like_count = up
              /\ up < 0 => d_res[i].like_count = 0
    /\ t_dict # PyNone =>
          /\ t_dict.like_count >= 0
          /\ t_obj.like_count >= 0 => t_dict.like_count = t_obj.like_count
          /\ t_obj.like_count < 0 => t_dict.like_count = 0

\* a record built from a negative upstream like_count, and a dict made from
\* an object with a negative like_count
C8_Witness ==
    /\ \E i \in DOMAIN d_res : d_stats[d_kept[i]].like_count < 0
    /\ t_dict # PyNone /\ t_obj.like_count < 0

-----------------------------------------------------------------------------
(* Claims about get_document_statistics_async_v2 *)

\* the wiki URLs among urls, in order: the i-th is the one roots[i] was
\* resolved from
WikiUrls ==
    SelectSeq(urls, LAMBDA url : parse_doc_url(url) # PyNone
                                 /\ parse_doc_url(url).doc_type = "wiki")

AllUrlsParse == \A i \in DOMAIN urls : parse_doc_url(urls[i]) # PyNone

RECURSIVE Ancestors(_, _)
\* n and the nodes above it
Ancestors(par, n) == IF n = 0 THEN {} ELSE {n} \cup Ancestors(par, par[n])

\* the nodes at or below the resolved roots
Reachable == {n \in DOMAIN parent : Ancestors(parent, n) \cap Range(roots) # {}}

RECURSIVE SortByUvDesc(_)
\* rs ordered by uv, largest first, records of equal uv in their order in rs
SortByUvDesc(rs) ==
    IF rs = <<>> THEN <<>>
    ELSE LET rest == SortByUvDesc(Tail(rs))
             k    == Cardinality({i \in DOMAIN rest : rest[i].uv > Head(rs).uv})
         IN  SubSeq(rest, 1, k) \o <<Head(rs)>> \o SubSeq(rest, k + 1, Len(rest))

\* C5 (as claimed): no two records of the returned list carry the same token.
C5_NoDuplicateTokens ==
    pc = "returned" => \A i, j \in DOMAIN infos : infos[i].token = infos[j].token => i = j

\* C6 (as claimed): the returned list is the produced records (walked ones
\* first, then flat ones) ordered by uv, largest first, equal uv in produced
\* order.
C6_SortedByUvDescStable ==
    pc = "returned" =>
        /\ \A i, j \in DOMAIN infos : i < j => infos[i].uv >= infos[j].uv
        /\ infos = SortByUvDesc(wiki_infos \o d_res)

\* C7 (as claimed): the record of a walked root carries the URL the caller
\* gave for that root, every other record the URL derived from its type and
\* token.
C7_RootKeepsSuppliedUrl ==
    pc = "returned" =>
        \A i \in DOMAIN infos :
            IF \E j \in DOMAIN roots : roots[j] # None /\ obj_token(roots[j]) = infos[i].token
            THEN \E j \in DOMAIN roots :
                    /\ roots[j] # None /\ obj_token(roots[j]) = infos[i].token
                    /\ infos[i].source_url = WikiUrls[j]
            ELSE infos[i].source_url = DerivedUrl(infos[i].type, infos[i].token)

\* C9 (as claimed): for well-formed URLs the call never ends by raising.
C9_AlwaysReturns ==
    AllUrlsParse => pc # "raised"

\* C10 (as claimed): with a URL that does not parse or a root that is not
\* resolved, the call still returns, and unless a listing failed every node at
\* or below the other roots has been walked and handed to get_doc_info.
C10_OnlyBadRootSkipped ==
    (/\ pc \in {"returned", "raised"}
     /\ \/ ~AllUrlsParse
        \/ \E i \in DOMAIN roots : roots[i] = None) =>
        /\ pc = "returned"
        /\ ~listFailed =>
              \A n \in Reachable :
                  /\ n \in Range(yielded)
                  /\ \E c \in DOMAIN calls : node_doc(n) \in Range(calls[c])

-----------------------------------------------------------------------------
(* walk_tree_concurrent against the clock *)

\* time passes while tasks wait for the throttler or for a response
tick ==
    /\ pc = "walk"
    /\ now < MaxTime
    /\ now' = now + 1
    /\ UNCHANGED <<throttler, permits, requests>>
    /\ UNCHANGED <<walkVars, batchVars, docVars, v2Vars>>
    /\ UNCHANGED appVars

ThrottleInit ==
    /\ parent \in Forests
    /\ roots = RootsOf(parent)
    /\ q_parents = <<>> /\ q_nodes = <<>> /\ unfinished = 0
    /\ workers = EmptyBag /\ waiter = "none" /\ gen = "new"
    /\ yielded = <<>> /\ listFailed = FALSE /\ list_log = EmptyBag
    /\ b_in = <<>> /\ b_size = 1 /\ batch = <<>> /\ emitted = <<>>
    /\ b_pc = "idle" /\ consumed = <<>>
    /\ d_docs = <<>> /\ d_res = <<>> /\ d_dropped = <<>> /\ d_kept = <<>>
    /\ d_stats = <<>> /\ d_metas = <<>> /\ t_obj = PyNone /\ t_dict = PyNone
    /\ urls = <<>> /\ docs = <<>> /\ wiki_infos = <<>> /\ infos = <<>>
    /\ pc = "walk" /\ calls = <<>> /\ outcomes = <<>> /\ ret = <<>>
    /\ now = 0 /\ throttler = Throttler(RateLimit, Period)
    /\ permits = <<>> /\ requests = EmptyBag
    /\ jwt_secret = "s1" /\ jwt_token = PyNone /\ lifetime = 0 /\ verified = PyNone
    /\ ngrok_manager = NgrokManager(5000) /\ info = PyNone /\ connects = 0
    /\ MAX_CONCURRENT_REQUESTS = InitialMaxConcurrent
    /\ BATCH_SIZE = InitialBatchSize /\ handlers = <<>>
    /\ all_doc_stats = <<>> /\ statistics = PyNone
    /\ session = <<>> /\ response = PyNone
    /\ m_docs = <<>> /\ m_outcomes = <<>> /\ m_sync = PyNone /\ m_async = PyNone

ThrottleNext ==
    \/ walk_start
    \/ \E w \in BagToSet(workers) : worker_get(w)
    \/ \E w \in BagToSet(workers) : worker_throttle(w)
    \/ \E w \in BagToSet(workers) : worker_list(w)
    \/ wait_for_completion
    \/ walk_next
    \/ tick

\* the walk with more demand than the throttler's rate: a throttler of
\* RateLimit permits per Period ticks
SpecThrottle == ThrottleInit /\ [][ThrottleNext]_vars

-----------------------------------------------------------------------------
(* walk_tree_concurrent under fair scheduling *)

\* The event loop runs every task that is ready: a worker that can go on, the
\* waiter once the join is released, the consumer once an item is queued.
WalkFairness ==
    /\ WF_vars(walk_start)
    /\ WF_vars(\E w \in BagToSet(workers) : worker_get(w))
    /\ WF_vars(\E w \in BagToSet(workers) : worker_throttle(w))
    /\ WF_vars(\E w \in BagToSet(workers) : worker_list(w))
    /\ WF_vars(wait_for_completion)
    /\ WF_vars(walk_next)

SpecWalkFair == WalkInit /\ [][WalkNext]_vars /\ WalkFairness

-----------------------------------------------------------------------------
(* Claims about failing child listings *)

\* the place of node c among the children of its parent, in listing order
PlaceOf(c) == Cardinality({d \in DOMAIN parent : parent[d] = parent[c] /\ d <= c})

\* c was on a page that its parent's listing returned: the listing did not
\* fail, or failed at a request after the one of c's page
Listed(c) ==
    \A l \in BagToSet(list_log) :
        (l.node = parent[c] /\ l.failAt # 0) => PlaceOf(c) <= (l.failAt - 1) * PageSize

\* C11: with every root resolved, the stream of a finished walk holds exactly
\* the nodes not cut off by a failed listing: a node is missing only if it, or
\* a node above it, lies on a page its parent's listing did not return.  The
\* failing container, the children of its earlier pages, its siblings and all
\* other subtrees are there, and the walk does not get stuck before its end.
C11_OnlyUnlistedDescendantsMissing ==
    AllRootsResolved =>
        /\ gen = "ended" =>
              /\ NoDuplicates(yielded)
              /\ \A n \in NodesOf(parent) :
                    n \in Range(yielded) <=>
                        \A a \in Ancestors(parent, n) : parent[a] # 0 => Listed(a)
        /\ gen # "ended" => ENABLED WalkNext

\* a finished walk in which the listing of a container with two pages failed
\* at the second request: a child of the first page is in the stream, a child
\* of the second page is not, and the container itself is
C11_Witness ==
    /\ AllRootsResolved /\ gen = "ended"
    /\ \E l \in BagToSet(list_log) :
          /\ l.failAt = 2
          /\ l.node \in Range(yielded)
          /\ \E c, d \in NodesOf(parent) :
                /\ parent[c] = l.node /\ parent[d] = l.node
                /\ c \in Range(yielded) /\ d \notin Range(yielded)

-----------------------------------------------------------------------------
(* Claims about the end of the walk *)

\* C14: under fair scheduling the stream of walk_tree_concurrent eventually
\* ends, whatever listings fail; and with every root resolved the join is
\* released once no expansion is pending, the end marker is enqueued and the
\* consumer's loop terminates on it.
C14_StreamEventuallyEnds ==
    /\ <>(gen = "ended")
    /\ AllRootsResolved => <>(unfinished = 0 /\ waiter = "done" /\ gen = "ended")

\* a walk with a failed listing whose join was released and whose stream ended
\* after at least two nodes
C14_Witness ==
    /\ AllRootsResolved /\ listFailed
    /\ unfinished = 0 /\ waiter = "done" /\ gen = "ended"
    /\ Len(yielded) >= 2

-----------------------------------------------------------------------------
(* Claims about the throttler *)

\* the remote calls of the kinds started in the window (from, to]
StartedIn(kinds, from, to) ==
    LET rs == {r \in BagToSet(requests) : r.kind \in kinds /\ r.at > from /\ r.at <= to}
    IN  BagCardinality([r \in rs |-> CopiesIn(r, requests)])

\* the permits acquired in the window (from, to]
PermitsIn(from, to) ==
    Cardinality({i \in DOMAIN permits : permits[i] > from /\ permits[i] <= to})

\* The throttler itself keeps its rate: in no window of one period are more
\* than rate_limit permits acquired.
PermitsWithinRate ==
    \A t \in 0..now : PermitsIn(t - throttler.period, t) <= throttler.rate_limit

\* C15: every child-listing page request, statistics lookup and metadata
\* lookup made so far has a permit of its own acquired before it: at every
\* moment there are at least as many permits as such calls.
C15_EveryCallHasItsPermit ==
    StartedIn({"children", "stats", "meta"}, -1, now) <= Len(permits)

\* C16: in no window of one period are more than rate_limit child-listing
\* calls started, across all workers.
C16_ListingCallsWithinRate ==
    \A t \in 0..now :
        StartedIn({"children"}, t - throttler.period, t) <= throttler.rate_limit

-----------------------------------------------------------------------------
(* Claims about failed lookups, diagnostics and chunking *)

\* the calls of get_doc_info that get_wiki_info made: all of them until the
\* entry point has made its own call for the flat docs, the last one
WikiCalls == IF pc = "returned" THEN 1..(Len(calls) - 1) ELSE DOMAIN calls

\* a call whose metadata lookup gave no meta at all, or whose statistics
\* lookup gave no statistics at all: what a lookup that fails outright gives
FailedOutright(c) ==
    calls[c] # <<>> /\ (outcomes[c].no_metas \/ outcomes[c].no_stats)

\* C12: a batch whose metadata or statistics lookup failed outright gives no
\* record; and when the walk of resolved roots has ended with such a batch
\* and another batch that gave records, get_wiki_info has returned, every
\* walked node was looked up in some batch, and the returned list holds the
\* records of every batch.
C12_FailedBatchDroppedOthersReturned ==
    /\ \A c \in DOMAIN calls : FailedOutright(c) => outcomes[c].res = <<>>
    /\ ( /\ AllUrlsParse /\ AllRootsResolved /\ gen = "ended"
         /\ \E c, e \in WikiCalls : FailedOutright(c) /\ outcomes[e].res # <<>> )
       => /\ pc \in {"flat", "returned"}
          /\ Flatten([c \in WikiCalls |-> calls[c]]) =
                [i \in DOMAIN yielded |-> node_doc(yielded[i])]
          /\ wiki_infos = Flatten([c \in WikiCalls |-> outcomes[c].res])

\* the identities dropped by the join in the calls of get_doc_info so far
DroppedDocs == Flatten([c \in DOMAIN outcomes |-> outcomes[c].dropped])

\* the child listings that failed
FailedExpansions ==
    BagCardinality([l \in {k \in BagToSet(list_log) : k.failAt # 0} |-> CopiesIn(l, list_log)])

\* C13: when something was dropped by the join or a listing failed, the
\* second component of what get_document_statistics_async_v2 returns is a
\* collection of diagnostics: one entry per dropped identity, naming it, and
\* one per failed expansion.
C13_DiagnosticsReturned ==
    (pc = "returned" /\ (DroppedDocs # <<>> \/ FailedExpansions > 0)) =>
        /\ ret[2] # PyNone
        /\ Len(ret[2]) = Len(DroppedDocs) + FailedExpansions
        /\ \A i \in DOMAIN DroppedDocs :
              \E j \in DOMAIN ret[2] : ret[2][j].doc = DroppedDocs[i]

\* C17: every identity list handed to get_doc_info, for walked nodes and for
\* flat roots, has at most batch_size (200) entries, so that the metadata
\* lookup cuts none of its identities off.
C17_EveryCallWithinCeiling ==
    \A c \in DOMAIN calls : Len(calls[c]) <= BatchSize

-----------------------------------------------------------------------------
(* auth_utils: create_jwt_token and verify_jwt_token *)

\* the user access tokens a caller may pass, the empty string among them
UserTokens == {Str("u1"), Str("u2"), Str("")}

\* the secrets a token may be signed with: the configured one and another
Secrets == {"s1", "s2"}

\* expires_in_minutes = expires_in//60
expires_in_minutes(expires_in) == expires_in \div Minute

\* timedelta(minutes=m), in ticks
timedelta(m) == m * Minute

\* jwt.encode(payload, key, algorithm='HS256'): the signature is made with key
jwt_encode(payload, key) == [payload |-> payload, signed_with |-> key]

\* create_jwt_token at time t
create_jwt_token(user_access_token, expires_in, t) ==
    jwt_encode([user_access_token |-> user_access_token,
                exp |-> t + timedelta(expires_in_minutes(expires_in)),
                iat |-> t,
                iss |-> "doc-stats-app"],
               jwt_secret)

\* (a decode that checks neither the signature nor the expiry)
jwt_decode_unchecked(tok, key, t, strict) == tok.payload

\* jwt.decode(token, key, algorithms=['HS256']) at time t: the signature is
\* checked first, then exp.  A token whose exp is now is expired for a PyJWT
\* that compares with <= (strict) and still valid for one that compares with <.
jwt_decode(tok, key, t, strict) ==
    IF tok.signed_with # key THEN [raised |-> "InvalidSignatureError"]
    ELSE IF tok.payload.exp < t \/ (strict /\ tok.payload.exp = t)
         THEN [raised |-> "ExpiredSignatureError"]
    ELSE tok.payload

\* verify_jwt_token at time t: None when decode raises or the payload holds
\* no user_access_token, else the user_access_token
verify_jwt_token(tok, t, strict) ==
    LET payload == jwt_decode(tok, jwt_secret, t, strict)
    IN  IF "raised" \in DOMAIN payload THEN PyNone
        ELSE IF payload.user_access_token = Str("") THEN PyNone
        ELSE payload.user_access_token

\* a token is made by create_jwt_token
jwt_create ==
    /\ pc = "jwt"
    /\ jwt_token = PyNone
    /\ \E user_access_token \in UserTokens, expires_in \in 1..MaxExpires :
          /\ jwt_token' = create_jwt_token(user_access_token, expires_in, now)
          /\ lifetime' = expires_in
    /\ UNCHANGED <<jwt_secret, verified, now>>
    /\ UNCHANGED <<throttler, permits, requests>>
    /\ UNCHANGED <<walkVars, batchVars, docVars, v2Vars, ngrokVars, utilVars>>

\* a token is made elsewhere with jwt.encode: issued at time 0, with any
\* expiry and either secret
jwt_foreign ==
    /\ pc = "jwt"
    /\ jwt_token = PyNone
    /\ \E user_access_token \in UserTokens, exp \in 0..MaxClock, key \in Secrets :
          jwt_token' = jwt_encode([user_access_token |-> user_access_token,
                                   exp |-> exp, iat |-> 0, iss |-> "doc-stats-app"], key)
    /\ UNCHANGED <<jwt_secret, lifetime, verified, now>>
    /\ UNCHANGED <<throttler, permits, requests>>
    /\ UNCHANGED <<walkVars, batchVars, docVars, v2Vars, ngrokVars, utilVars>>

\* time passes
jwt_tick ==
    /\ pc = "jwt"
    /\ now < MaxClock
    /\ now' = now + 1
    /\ UNCHANGED <<throttler, permits, requests>>
    /\ UNCHANGED <<walkVars, batchVars, docVars, v2Vars, appVars>>

\* the token is handed to verify_jwt_token
jwt_verify ==
    /\ pc = "jwt"
    /\ jwt_token # PyNone
    /\ verified = PyNone
    /\ \E strict \in BOOLEAN :
          verified' = [at |-> now, result |-> verify_jwt_token(jwt_token, now, strict)]
    /\ UNCHANGED <<jwt_secret, jwt_token, lifetime, now>>
    /\ UNCHANGED <<throttler, permits, requests>>
    /\ UNCHANGED <<walkVars, batchVars, docVars, v2Vars, ngrokVars, utilVars>>

JwtInit ==
    /\ pc = "jwt"
    /\ jwt_secret = "s1" /\ jwt_token = PyNone /\ lifetime = 0 /\ verified = PyNone
    /\ now = 0 /\ throttler = Throttler(rate_limit, period)
    /\ permits = <<>> /\ requests = EmptyBag
    /\ parent = <<>> /\ roots = <<>>
    /\ q_parents = <<>> /\ q_nodes = <<>> /\ unfinished = 0
    /\ workers = EmptyBag /\ waiter = "none" /\ gen = "new"
    /\ yielded = <<>> /\ listFailed = FALSE /\ list_log = EmptyBag
    /\ b_in = <<>> /\ b_size = 1 /\ batch = <<>> /\ emitted = <<>>
    /\ b_pc = "idle" /\ consumed = <<>>
    /\ d_docs = <<>> /\ d_res = <<>> /\ d_dropped = <<>> /\ d_kept = <<>>
    /\ d_stats = <<>> /\ d_metas = <<>> /\ t_obj = PyNone /\ t_dict = PyNone
    /\ urls = <<>> /\ docs = <<>> /\ wiki_infos = <<>> /\ infos = <<>>
    /\ calls = <<>> /\ outcomes = <<>> /\ ret = <<>>
    /\ ngrok_manager = NgrokManager(5000) /\ info = PyNone /\ connects = 0
    /\ MAX_CONCURRENT_REQUESTS = InitialMaxConcurrent
    /\ BATCH_SIZE = InitialBatchSize /\ handlers = <<>>
    /\ all_doc_stats = <<>> /\ statistics = PyNone
    /\ session = <<>> /\ response = PyNone
    /\ m_docs = <<>> /\ m_outcomes = <<>> /\ m_sync = PyNone /\ m_async = PyNone

JwtNext == jwt_create \/ jwt_foreign \/ jwt_tick \/ jwt_verify

\* a token is created or brought in at some time and verified at some later time
SpecJwt == JwtInit /\ [][JwtNext]_vars

-----------------------------------------------------------------------------
(* Claims about the JWT functions *)

\* C18: a token made by create_jwt_token(t, expires_in), t not empty, and
\* verified less than expires_in after its creation gives t back.
C18_RoundTripWithinLifetime ==
    ( /\ verified # PyNone /\ lifetime > 0
      /\ jwt_token.payload.user_access_token # Str("")
      /\ verified.at < jwt_token.payload.iat + lifetime )
    => verified.result = jwt_token.payload.user_access_token

\* C19: verify_jwt_token gives None for a token whose expiry time has passed
\* and for a token signed with another secret than jwt_secret.
C19_ExpiredOrForgedGivesNone ==
    ( /\ verified # PyNone
      /\ \/ jwt_token.payload.exp < verified.at
         \/ jwt_token.signed_with # jwt_secret )
    => verified.result = PyNone

\* a token made by create_jwt_token for a user access token, with the
\* configured secret, verified after its expiry time: the result is None
C19_Witness ==
    /\ verified # PyNone /\ lifetime > 0
    /\ jwt_token.payload.user_access_token = Str("u1")
    /\ jwt_token.signed_with = jwt_secret
    /\ jwt_token.payload.exp < verified.at
    /\ verified.result = PyNone

-----------------------------------------------------------------------------
(* ngrok_utils: NgrokManager and the functions on the global ngrok_manager *)

\* the local ports a caller may pass to start_ngrok_tunnel
Ports == {5000, 8080}

\* the public URLs ngrok.connect may answer with: a scheme and a host
TunnelUrls == [scheme : {"http", "https", "tcp"}, host : {"a.ngrok.io", "b.ngrok.io"}]

\* what ngrok.connect(port) may do: raise, or return a tunnel
ConnectOutcomes == {[raised |-> TRUE]} \cup [public_url : TunnelUrls]

\* if not self.public_url.startswith("https://"):
\*     self.public_url = self.public_url.replace("http://", "https://")
EnsureHttps(url) == IF url.scheme = "http" THEN [url EXCEPT !.scheme = "https"] ELSE url

\* NgrokManager.start_tunnel: the manager afterwards, the value returned and
\* the number of ngrok.connect calls made
start_tunnel(self, outcome) ==
    IF self.tunnel # PyNone
    THEN [self |-> self, result |-> self.public_url, connected |-> 0]
    ELSE IF "raised" \in DOMAIN outcome
    THEN [self |-> self, result |-> PyNone, connected |-> 1]
    ELSE [self |-> [self EXCEPT !.tunnel = outcome,
                                !.public_url = EnsureHttps(outcome.public_url)],
          result |-> EnsureHttps(outcome.public_url),
          connected |-> 1]

\* NgrokManager.stop_tunnel: ngrok.disconnect may raise, and then nothing is reset
stop_tunnel(self, ok) ==
    IF self.tunnel # PyNone /\ ok
    THEN [self EXCEPT !.tunnel = PyNone, !.public_url = PyNone]
    ELSE self

\* f"{self.public_url}/auth/callback"
CallbackOf(url) == [scheme |-> url.scheme, host |-> url.host, path |-> "/auth/callback"]

\* NgrokManager.get_redirect_uri: without a public_url it calls start_tunnel
get_redirect_uri(self, outcome) ==
    LET started == IF self.public_url = PyNone
                   THEN start_tunnel(self, outcome)
                   ELSE [self |-> self, result |-> PyNone, connected |-> 0]
    IN  [self      |-> started.self,
         result    |-> IF started.self.public_url # PyNone
                       THEN CallbackOf(started.self.public_url) ELSE PyNone,
         connected |-> started.connected]

\* NgrokManager.get_tunnel_info: the entries of the dict are evaluated in
\* order, public_url before and is_active after the call of get_redirect_uri
get_tunnel_info(self, outcome) ==
    LET uri == get_redirect_uri(self, outcome)
    IN  [self      |-> uri.self,
         result    |-> [public_url   |-> self.public_url,
                        redirect_uri |-> uri.result,
                        port         |-> self.port,
                        is_active    |-> uri.self.tunnel # PyNone],
         connected |-> uri.connected]

\* start_ngrok_tunnel(port): a new manager replaces the global one and starts
start_ngrok_tunnel ==
    /\ pc = "ngrok"
    /\ connects < MaxConnects
    /\ \E port \in Ports, outcome \in ConnectOutcomes :
          LET started == start_tunnel(NgrokManager(port), outcome)
          IN  /\ ngrok_manager' = started.self
              /\ connects' = connects + started.connected
    /\ UNCHANGED info
    /\ UNCHANGED <<walkVars, batchVars, docVars, v2Vars, thrVars, jwtVars, utilVars>>

\* stop_ngrok_tunnel()
stop_ngrok_tunnel ==
    /\ pc = "ngrok"
    /\ \E ok \in BOOLEAN : ngrok_manager' = stop_tunnel(ngrok_manager, ok)
    /\ UNCHANGED <<info, connects>>
    /\ UNCHANGED <<walkVars, batchVars, docVars, v2Vars, thrVars, jwtVars, utilVars>>

\* get_ngrok_redirect_uri()
get_ngrok_redirect_uri ==
    /\ pc = "ngrok"
    /\ connects < MaxConnects
    /\ \E outcome \in ConnectOutcomes :
          LET uri == get_redirect_uri(ngrok_manager, outcome)
          IN  /\ ngrok_manager' = uri.self
              /\ connects' = connects + uri.connected
    /\ UNCHANGED info
    /\ UNCHANGED <<walkVars, batchVars, docVars, v2Vars, thrVars, jwtVars, utilVars>>

\* get_tunnel_status()
get_tunnel_status ==
    /\ pc = "ngrok"
    /\ connects < MaxConnects
    /\ \E outcome \in ConnectOutcomes :
          LET status == get_tunnel_info(ngrok_manager, outcome)
          IN  /\ ngrok_manager' = status.self
              /\ info' = status.result
              /\ connects' = connects + status.connected
    /\ UNCHANGED <<walkVars, batchVars, docVars, v2Vars, thrVars, jwtVars, utilVars>>

NgrokInit ==
    /\ pc = "ngrok"
    /\ ngrok_manager = NgrokManager(5000) /\ info = PyNone /\ connects = 0
    /\ MAX_CONCURRENT_REQUESTS = InitialMaxConcurrent
    /\ BATCH_SIZE = InitialBatchSize /\ handlers = <<>>
    /\ all_doc_stats = <<>> /\ statistics = PyNone
    /\ session = <<>> /\ response = PyNone
    /\ m_docs = <<>> /\ m_outcomes = <<>> /\ m_sync = PyNone /\ m_async = PyNone
    /\ jwt_secret = "s1" /\ jwt_token = PyNone /\ lifetime = 0 /\ verified = PyNone
    /\ now = 0 /\ throttler = Throttler(rate_limit, period)
    /\ permits = <<>> /\ requests = EmptyBag
    /\ parent = <<>> /\ roots = <<>>
    /\ q_parents = <<>> /\ q_nodes = <<>> /\ unfinished = 0
    /\ workers = EmptyBag /\ waiter = "none" /\ gen = "new"
    /\ yielded = <<>> /\ listFailed = FALSE /\ list_log = EmptyBag
    /\ b_in = <<>> /\ b_size = 1 /\ batch = <<>> /\ emitted = <<>>
    /\ b_pc = "idle" /\ consumed = <<>>
    /\ d_docs = <<>> /\ d_res = <<>> /\ d_dropped = <<>> /\ d_kept = <<>>
    /\ d_stats = <<>> /\ d_metas = <<>> /\ t_obj = PyNone /\ t_dict = PyNone
    /\ urls = <<>> /\ docs = <<>> /\ wiki_infos = <<>> /\ infos = <<>>
    /\ calls = <<>> /\ outcomes = <<>> /\ ret = <<>>

NgrokNext ==
    \/ start_ngrok_tunnel
    \/ stop_ngrok_tunnel
    \/ get_ngrok_redirect_uri
    \/ get_tunnel_status

\* the functions of ngrok_utils called in any order on the global manager
SpecNgrok == NgrokInit /\ [][NgrokNext]_vars

-----------------------------------------------------------------------------
(* Claims about the tunnel status *)

\* C20: get_tunnel_status starts no tunnel: it calls ngrok.connect not once,
\* it leaves the manager (its tunnel and its public_url) as it was, and for a
\* manager without a tunnel the dict it returns has is_active false.
C20_StatusStartsNoTunnel ==
    [][get_tunnel_status =>
          /\ connects' = connects
          /\ ngrok_manager'.tunnel = ngrok_manager.tunnel
          /\ ngrok_manager'.public_url = ngrok_manager.public_url
          /\ ngrok_manager.tunnel = PyNone => info'.is_active = FALSE]_vars

-----------------------------------------------------------------------------
(* Claims about the queues of the walk *)

\* the workers that have not yet completed q_parents.get()
Waiting == BagCardinality([w \in {v \in BagToSet(workers) : v.pc = "get"} |-> CopiesIn(w, workers)])

\* C21: when the end marker has been enqueued no expansion is pending:
\* q_parents is empty, every worker ever created has listed its container and
\* called task_done, and until the consumer takes it the marker is the last
\* entry of the result queue and the only None in it; afterwards the queue
\* stays empty.
C21_MarkerOnlyWhenNothingPending ==
    waiter = "done" =>
        /\ q_parents = <<>> /\ unfinished = 0
        /\ \A w \in BagToSet(workers) : w.pc = "done"
        /\ BagCardinality(list_log) = BagCardinality(workers)
        /\ IF gen = "ended" THEN q_nodes = <<>>
           ELSE /\ q_nodes # <<>>
                /\ \A i \in DOMAIN q_nodes : q_nodes[i] = None <=> i = Len(q_nodes)

\* the marker is enqueued after a walk in which a worker put a container on
\* q_parents while another worker was still running
C21_Witness ==
    /\ waiter = "done" /\ gen = "loop"
    /\ BagCardinality(workers) >= 3
    /\ \E n \in NodesOf(parent) : parent[n] # 0 /\ has_child(parent, n)

\* C25: the stream ends only on the marker of wait_for_completion.
C25_EndsOnlyOnMarker ==
    gen = "ended" => waiter = "done"

\* C27: the workers that have not yet completed q_parents.get() are as many
\* as the nodes in q_parents.
C27_WaitingWorkersMatchQueue ==
    Waiting = Len(q_parents)

\* two containers are queued and two workers are about to dequeue them
C27_Witness ==
    /\ Len(q_parents) >= 2 /\ Waiting >= 2
    /\ \E w \in BagToSet(workers) : w.pc = "done"

\* C28: in the stream every non-root node comes after its parent.
C28_ParentBeforeChild ==
    \A i \in DOMAIN yielded :
        parent[yielded[i]] # 0 => \E j \in 1..(i - 1) : yielded[j] = parent[yielded[i]]

\* a finished stream with a node, its child and its grandchild
C28_Witness ==
    /\ gen = "ended" /\ waiter = "done"
    /\ \E i, j, k \in DOMAIN yielded :
          /\ parent[yielded[k]] = yielded[j] /\ parent[yielded[j]] = yielded[i]

-----------------------------------------------------------------------------
(* Claims about the join of statistics and metadata *)

\* the metadata lookup gave a meta for the identity doc: its token and its type
HasMeta(doc) ==
    \E j \in DOMAIN d_metas :
        d_metas[j].doc_token = doc.doc_token /\ d_metas[j].doc_type = doc.doc_type

\* C22: every identity a record was made for has a statistics result and a
\* metadata result of its own.
C22_RecordOnlyWithStatsAndMeta ==
    pc = "returned" =>
        \A i \in DOMAIN d_kept :
            /\ DictGet(d_stats, d_kept[i]) # PyNone
            /\ HasMeta(d_kept[i])

\* C23: every record carries the token and the type of the batch entry it was
\* built for, that is, the metadata joined to an entry is that of the same
\* (token, type) pair.
C23_RecordJoinsOneIdentity ==
    pc = "returned" =>
        \A i \in DOMAIN d_res :
            /\ d_res[i].token = d_kept[i].doc_token
            /\ d_res[i].type = d_kept[i].doc_type

-----------------------------------------------------------------------------
(* flask_app.handle_batch_stats_request and the globals of doc_stats_utils *)

MaxRequests == 2    \* /stats/batch requests served at the same time (threads)

\* the settings a request body carries: data.get('max_concurrent', 10) and
\* data.get('batch_size', 20)
MaxConcurrentSettings == {5, InitialMaxConcurrent}
BatchSizeSettings == {50, InitialBatchSize}

\* the locals of one call of handle_batch_stats_request
Handler(mc, bs) ==
    [pc |-> "new", max_concurrent |-> mc, batch_size |-> bs,
     original_max_concurrent |-> PyNone, original_batch_size |-> PyNone]

\* the early returns: 401 without a user token, 400 for a bad body
batch_reject(r) ==
    /\ pc = "batch"
    /\ handlers[r].pc = "new"
    /\ handlers' = [handlers EXCEPT ![r].pc = "done"]
    /\ UNCHANGED <<MAX_CONCURRENT_REQUESTS, BATCH_SIZE>>
    /\ UNCHANGED <<walkVars, batchVars, docVars, v2Vars, thrVars, jwtVars, ngrokVars>>
    /\ UNCHANGED <<sortVars, authVars, metaVars>>

\* from doc_stats_utils import MAX_CONCURRENT_REQUESTS, BATCH_SIZE:
\* the values the globals have now are kept as the original ones
batch_save(r) ==
    /\ pc = "batch"
    /\ handlers[r].pc = "new"
    /\ handlers' = [handlers EXCEPT ![r].pc = "saved",
                        ![r].original_max_concurrent = MAX_CONCURRENT_REQUESTS,
                        ![r].original_batch_size = BATCH_SIZE]
    /\ UNCHANGED <<MAX_CONCURRENT_REQUESTS, BATCH_SIZE>>
    /\ UNCHANGED <<walkVars, batchVars, docVars, v2Vars, thrVars, jwtVars, ngrokVars>>
    /\ UNCHANGED <<sortVars, authVars, metaVars>>

\* doc_stats_utils.MAX_CONCURRENT_REQUESTS = max_concurrent
batch_set_max_concurrent(r) ==
    /\ pc = "batch"
    /\ handlers[r].pc = "saved"
    /\ MAX_CONCURRENT_REQUESTS' = handlers[r].max_concurrent
    /\ handlers' = [handlers EXCEPT ![r].pc = "set"]
    /\ UNCHANGED BATCH_SIZE
    /\ UNCHANGED <<walkVars, batchVars, docVars, v2Vars, thrVars, jwtVars, ngrokVars>>
    /\ UNCHANGED <<sortVars, authVars, metaVars>>

\* doc_stats_utils.BATCH_SIZE = batch_size
batch_set_batch_size(r) ==
    /\ pc = "batch"
    /\ handlers[r].pc = "set"
    /\ BATCH_SIZE' = handlers[r].batch_size
    /\ handlers' = [handlers EXCEPT ![r].pc = "running"]
    /\ UNCHANGED MAX_CONCURRENT_REQUESTS
    /\ UNCHANGED <<walkVars, batchVars, docVars, v2Vars, thrVars, jwtVars, ngrokVars>>
    /\ UNCHANGED <<sortVars, authVars, metaVars>>

\* loop.run_until_complete(get_document_statistics_async(..)) returns or
\* raises: either way the finally clause comes next
batch_run(r) ==
    /\ pc = "batch"
    /\ handlers[r].pc = "running"
    /\ handlers' = [handlers EXCEPT ![r].pc = "finally"]
    /\ UNCHANGED <<MAX_CONCURRENT_REQUESTS, BATCH_SIZE>>
    /\ UNCHANGED <<walkVars, batchVars, docVars, v2Vars, thrVars, jwtVars, ngrokVars>>
    /\ UNCHANGED <<sortVars, authVars, metaVars>>

\* doc_stats_utils.MAX_CONCURRENT_REQUESTS = original_max_concurrent
batch_restore_max_concurrent(r) ==
    /\ pc = "batch"
    /\ handlers[r].pc = "finally"
    /\ MAX_CONCURRENT_REQUESTS' = handlers[r].original_max_concurrent
    /\ handlers' = [handlers EXCEPT ![r].pc = "restored"]
    /\ UNCHANGED BATCH_SIZE
    /\ UNCHANGED <<walkVars, batchVars, docVars, v2Vars, thrVars, jwtVars, ngrokVars>>
    /\ UNCHANGED <<sortVars, authVars, metaVars>>

\* doc_stats_utils.BATCH_SIZE = original_batch_size, and the response
batch_restore_batch_size(r) ==
    /\ pc = "batch"
    /\ handlers[r].pc = "restored"
    /\ BATCH_SIZE' = handlers[r].original_batch_size
    /\ handlers' = [handlers EXCEPT ![r].pc = "done"]
    /\ UNCHANGED MAX_CONCURRENT_REQUESTS
    /\ UNCHANGED <<walkVars, batchVars, docVars, v2Vars, thrVars, jwtVars, ngrokVars>>
    /\ UNCHANGED <<sortVars, authVars, metaVars>>

BatchInit ==
    /\ pc = "batch"
    /\ MAX_CONCURRENT_REQUESTS = InitialMaxConcurrent
    /\ BATCH_SIZE = InitialBatchSize
    /\ \E mc \in [1..MaxRequests -> MaxConcurrentSettings],
          bs \in [1..MaxRequests -> BatchSizeSettings] :
          handlers = [r \in 1..MaxRequests |-> Handler(mc[r], bs[r])]
    /\ all_doc_stats = <<>> /\ statistics = PyNone
    /\ session = <<>> /\ response = PyNone
    /\ m_docs = <<>> /\ m_outcomes = <<>> /\ m_sync = PyNone /\ m_async = PyNone
    /\ ngrok_manager = NgrokManager(5000) /\ info = PyNone /\ connects = 0
    /\ jwt_secret = "s1" /\ jwt_token = PyNone /\ lifetime = 0 /\ verified = PyNone
    /\ now = 0 /\ throttler = Throttler(rate_limit, period)
    /\ permits = <<>> /\ requests = EmptyBag
    /\ parent = <<>> /\ roots = <<>>
    /\ q_parents = <<>> /\ q_nodes = <<>> /\ unfinished = 0
    /\ workers = EmptyBag /\ waiter = "none" /\ gen = "new"
    /\ yielded = <<>> /\ listFailed = FALSE /\ list_log = EmptyBag
    /\ b_in = <<>> /\ b_size = 1 /\ batch = <<>> /\ emitted = <<>>
    /\ b_pc = "idle" /\ consumed = <<>>
    /\ d_docs = <<>> /\ d_res = <<>> /\ d_dropped = <<>> /\ d_kept = <<>>
    /\ d_stats = <<>> /\ d_metas = <<>> /\ t_obj = PyNone /\ t_dict = PyNone
    /\ urls = <<>> /\ docs = <<>> /\ wiki_infos = <<>> /\ infos = <<>>
    /\ calls = <<>> /\ outcomes = <<>> /\ ret = <<>>

BatchNext ==
    \/ \E r \in 1..MaxRequests : batch_reject(r)
    \/ \E r \in 1..MaxRequests : batch_save(r)
    \/ \E r \in 1..MaxRequests : batch_set_max_concurrent(r)
    \/ \E r \in 1..MaxRequests : batch_set_batch_size(r)
    \/ \E r \in 1..MaxRequests : batch_run(r)
    \/ \E r \in 1..MaxRequests : batch_restore_max_concurrent(r)
    \/ \E r \in 1..MaxRequests : batch_restore_batch_size(r)

\* /stats/batch requests served by threads of one process, interleaved at
\* every statement
SpecBatchStats == BatchInit /\ [][BatchNext]_vars

-----------------------------------------------------------------------------
(* Claims about the settings of /stats/batch *)

\* C24: once every handle_batch_stats_request has finished, the two globals
\* of doc_stats_utils have the values they had before the first one started.
C24_SettingsRestored ==
    (pc = "batch" /\ \A r \in DOMAIN handlers : handlers[r].pc = "done") =>
        /\ MAX_CONCURRENT_REQUESTS = InitialMaxConcurrent
        /\ BATCH_SIZE = InitialBatchSize

-----------------------------------------------------------------------------
(* doc_stats_utils.get_document_statistics and get_document_statistics_async *)

MaxStats == 3       \* records collected by one call

\* the dicts of to_dict that the calls collect: uv and what tells two apart
StatDicts == [token : DocTokens, uv : 0..MaxUv]

\* key=lambda x: x.get("uv", 0)
uv_key(x) == IF "uv" \in DOMAIN x THEN x.uv ELSE 0

reversed_list(xs) == [i \in 1..Len(xs) |-> xs[Len(xs) + 1 - i]]

\* x put behind every element whose key is not greater than its own
InsertByKey(xs, x) ==
    LET k == Cardinality({i \in 1..Len(xs) : uv_key(xs[i]) <= uv_key(x)})
    IN  SubSeq(xs, 1, k) \o <<x>> \o SubSeq(xs, k + 1, Len(xs))

\* the stable ascending sort of list.sort
RECURSIVE sort_ascending(_)
sort_ascending(xs) ==
    IF xs = <<>> THEN <<>>
    ELSE InsertByKey(sort_ascending(SubSeq(xs, 1, Len(xs) - 1)), xs[Len(xs)])

\* (a descending sort that turns the ascending one around)
list_sort_turned(xs, reverse) ==
    IF reverse THEN reversed_list(sort_ascending(xs)) ELSE sort_ascending(xs)

\* list.sort(key=.., reverse=..): with reverse the list is reversed, sorted
\* ascending and reversed again, which keeps equal keys in their order
list_sort(xs, reverse) ==
    IF reverse THEN reversed_list(sort_ascending(reversed_list(xs)))
    ELSE sort_ascending(xs)

\* all_doc_stats.append(doc_stats) and all_doc_stats.extend(child_stats): one
\* more dict is collected
collect_stats ==
    /\ pc = "stats"
    /\ statistics = PyNone
    /\ Len(all_doc_stats) < MaxStats
    /\ \E d \in StatDicts : all_doc_stats' = Append(all_doc_stats, d)
    /\ UNCHANGED statistics
    /\ UNCHANGED <<walkVars, batchVars, docVars, v2Vars, thrVars, jwtVars, ngrokVars>>
    /\ UNCHANGED <<cfgVars, authVars, metaVars>>

\* the end of get_document_statistics: the list is sorted and returned
\* (all_doc_stats keeps the order of collection here, for comparison)
get_document_statistics ==
    /\ pc = "stats"
    /\ statistics = PyNone
    /\ statistics' = [by |-> "get_document_statistics",
                      statistics |-> list_sort(all_doc_stats, TRUE)]
    /\ UNCHANGED all_doc_stats
    /\ UNCHANGED <<walkVars, batchVars, docVars, v2Vars, thrVars, jwtVars, ngrokVars>>
    /\ UNCHANGED <<cfgVars, authVars, metaVars>>

\* the end of get_document_statistics_async: the same sort
get_document_statistics_async ==
    /\ pc = "stats"
    /\ statistics = PyNone
    /\ statistics' = [by |-> "get_document_statistics_async",
                      statistics |-> list_sort(all_doc_stats, TRUE)]
    /\ UNCHANGED all_doc_stats
    /\ UNCHANGED <<walkVars, batchVars, docVars, v2Vars, thrVars, jwtVars, ngrokVars>>
    /\ UNCHANGED <<cfgVars, authVars, metaVars>>

StatsInit ==
    /\ pc = "stats"
    /\ all_doc_stats = <<>> /\ statistics = PyNone
    /\ MAX_CONCURRENT_REQUESTS = InitialMaxConcurrent
    /\ BATCH_SIZE = InitialBatchSize /\ handlers = <<>>
    /\ session = <<>> /\ response = PyNone
    /\ m_docs = <<>> /\ m_outcomes = <<>> /\ m_sync = PyNone /\ m_async = PyNone
    /\ ngrok_manager = NgrokManager(5000) /\ info = PyNone /\ connects = 0
    /\ jwt_secret = "s1" /\ jwt_token = PyNone /\ lifetime = 0 /\ verified = PyNone
    /\ now = 0 /\ throttler = Throttler(rate_limit, period)
    /\ permits = <<>> /\ requests = EmptyBag
    /\ parent = <<>> /\ roots = <<>>
    /\ q_parents = <<>> /\ q_nodes = <<>> /\ unfinished = 0
    /\ workers = EmptyBag /\ waiter = "none" /\ gen = "new"
    /\ yielded = <<>> /\ listFailed = FALSE /\ list_log = EmptyBag
    /\ b_in = <<>> /\ b_size = 1 /\ batch = <<>> /\ emitted = <<>>
    /\ b_pc = "idle" /\ consumed = <<>>
    /\ d_docs = <<>> /\ d_res = <<>> /\ d_dropped = <<>> /\ d_kept = <<>>
    /\ d_stats = <<>> /\ d_metas = <<>> /\ t_obj = PyNone /\ t_dict = PyNone
    /\ urls = <<>> /\ docs = <<>> /\ wiki_infos = <<>> /\ infos = <<>>
    /\ calls = <<>> /\ outcomes = <<>> /\ ret = <<>>

StatsNext ==
    \/ collect_stats
    \/ get_document_statistics
    \/ get_document_statistics_async

\* one call of either entry point: dicts are collected, then sorted
SpecStats == StatsInit /\ [][StatsNext]_vars

-----------------------------------------------------------------------------
(* Claims about the order of the older entry points *)

\* the dicts of xs whose uv is u, in their order
WithUv(xs, u) == LET Has(x) == x.uv = u IN SelectSeq(xs, Has)

\* C26: the list returned by get_document_statistics and by
\* get_document_statistics_async is ordered by uv non-increasing, and dicts
\* of equal uv keep the order in which they were collected.
C26_LegacySortedByUvStable ==
    statistics # PyNone =>
        /\ \A i, j \in DOMAIN statistics.statistics :
              i < j => statistics.statistics[i].uv >= statistics.statistics[j].uv
        /\ \A u \in 0..MaxUv :
              WithUv(statistics.statistics, u) = WithUv(all_doc_stats, u)

\* a list with two different dicts of one uv behind a dict of a smaller uv
\* has been sorted by the asynchronous entry point
C26_Witness ==
    /\ statistics # PyNone
    /\ statistics.by = "get_document_statistics_async"
    /\ \E i, j, k \in DOMAIN all_doc_stats :
          /\ i < j /\ j < k
          /\ all_doc_stats[i].uv < all_doc_stats[j].uv
          /\ all_doc_stats[j].uv = all_doc_stats[k].uv
          /\ all_doc_stats[j].token # all_doc_stats[k].token

-----------------------------------------------------------------------------
(* flask_app.auth, auth_callback and auth_utils.get_authorization_url *)

MaxSessions == 2    \* browsers, each with a session cookie of its own

\* the values of secrets.token_urlsafe(32) and of a request's state parameter
AuthStates == {"a", "b"}
\* request.args.get('state') and request.args.get('code'): None when absent
StateArgs == {PyNone} \cup {Str(x) : x \in AuthStates}
CodeArgs == {PyNone, Str(""), Str("c1")}

\* Python's truth value of None, of a string and of a tuple
bool(v) ==
    IF v = PyNone THEN FALSE
    ELSE IF DOMAIN v = {"str"} THEN v.str # ""
    ELSE Len(v) > 0

\* exchange_code_for_token: a pair (user_access_token, expires_in) when the
\* platform accepts the code, the pair ("", 0) otherwise
exchange_code_for_token(code, accepted) ==
    IF accepted THEN <<Str("u1"), 7200>> ELSE <<Str(""), 0>>

\* /auth: get_authorization_url stores a new state in the session
auth(b) ==
    /\ pc = "auth"
    /\ \E x \in AuthStates : session' = [session EXCEPT ![b] = Str(x)]
    /\ UNCHANGED response
    /\ UNCHANGED <<walkVars, batchVars, docVars, v2Vars, thrVars, jwtVars, ngrokVars>>
    /\ UNCHANGED <<cfgVars, sortVars, metaVars>>

\* /auth/callback
auth_callback(b) ==
    /\ pc = "auth"
    /\ \E code \in CodeArgs, state \in StateArgs, accepted \in BOOLEAN :
          LET stored == session[b]    \* session.get('auth_state')
              user_access_token == exchange_code_for_token(code, accepted)
          IN  IF state # stored
              THEN /\ response' = [session |-> b, stored |-> stored, state |-> state,
                                   code |-> code, status |-> 400, exchanged |-> FALSE]
                   /\ UNCHANGED session
              ELSE IF ~bool(code)
              THEN /\ response' = [session |-> b, stored |-> stored, state |-> state,
                                   code |-> code, status |-> 400, exchanged |-> FALSE]
                   /\ UNCHANGED session
              ELSE IF ~bool(user_access_token)
              THEN /\ response' = [session |-> b, stored |-> stored, state |-> state,
                                   code |-> code, status |-> 500, exchanged |-> TRUE]
                   /\ UNCHANGED session
              ELSE \* create_jwt_token, session.pop('auth_state', None), redirect
                   /\ response' = [session |-> b, stored |-> stored, state |-> state,
                                   code |-> code, status |-> 302, exchanged |-> TRUE]
                   /\ session' = [session EXCEPT ![b] = PyNone]
    /\ UNCHANGED <<walkVars, batchVars, docVars, v2Vars, thrVars, jwtVars, ngrokVars>>
    /\ UNCHANGED <<cfgVars, sortVars, metaVars>>

AuthInit ==
    /\ pc = "auth"
    /\ session = [b \in 1..MaxSessions |-> PyNone] /\ response = PyNone
    /\ MAX_CONCURRENT_REQUESTS = InitialMaxConcurrent
    /\ BATCH_SIZE = InitialBatchSize /\ handlers = <<>>
    /\ all_doc_stats = <<>> /\ statistics = PyNone
    /\ m_docs = <<>> /\ m_outcomes = <<>> /\ m_sync = PyNone /\ m_async = PyNone
    /\ ngrok_manager = NgrokManager(5000) /\ info = PyNone /\ connects = 0
    /\ jwt_secret = "s1" /\ jwt_token = PyNone /\ lifetime = 0 /\ verified = PyNone
    /\ now = 0 /\ throttler = Throttler(rate_limit, period)
    /\ permits = <<>> /\ requests = EmptyBag
    /\ parent = <<>> /\ roots = <<>>
    /\ q_parents = <<>> /\ q_nodes = <<>> /\ unfinished = 0
    /\ workers = EmptyBag /\ waiter = "none" /\ gen = "new"
    /\ yielded = <<>> /\ listFailed = FALSE /\ list_log = EmptyBag
    /\ b_in = <<>> /\ b_size = 1 /\ batch = <<>> /\ emitted = <<>>
    /\ b_pc = "idle" /\ consumed = <<>>
    /\ d_docs = <<>> /\ d_res = <<>> /\ d_dropped = <<>> /\ d_kept = <<>>
    /\ d_stats = <<>> /\ d_metas = <<>> /\ t_obj = PyNone /\ t_dict = PyNone
    /\ urls = <<>> /\ docs = <<>> /\ wiki_infos = <<>> /\ infos = <<>>
    /\ calls = <<>> /\ outcomes = <<>> /\ ret = <<>>

AuthNext ==
    \/ \E b \in 1..MaxSessions : auth(b)
    \/ \E b \in 1..MaxSessions : auth_callback(b)

\* /auth and /auth/callback requested in any order by the browsers
SpecAuth == AuthInit /\ [][AuthNext]_vars

-----------------------------------------------------------------------------
(* Claims about the state parameter of the authorization *)

\* C29: auth_callback exchanges the code only when the request's state equals
\* a state that get_authorization_url stored in the same session; on a
\* session without a stored state the answer is 400 and nothing is exchanged.
C29_ExchangeOnlyWithStoredState ==
    response # PyNone =>
        /\ response.exchanged =>
              /\ response.stored # PyNone
              /\ response.state = response.stored
        /\ response.stored = PyNone =>
              /\ response.status = 400
              /\ ~response.exchanged

-----------------------------------------------------------------------------
(* doc_stats_utils.batch_get_meta, batch_get_meta_single, batch_get_meta_async *)

MaxMetaDocs == 4    \* documents handed to one call
ChunkSize == 2      \* the local BATCH_SIZE = 200 of both functions, scaled down

\* range(0, len(docs), BATCH_SIZE): the number of chunks
NumChunks(ds) == (Len(ds) + ChunkSize - 1) \div ChunkSize

\* docs[i:i + BATCH_SIZE] of the c-th round
ChunkOf(ds, c) ==
    SubSeq(ds, (c - 1) * ChunkSize + 1,
           IF c * ChunkSize < Len(ds) THEN c * ChunkSize ELSE Len(ds))

\* what the request of one chunk meets: it raises, the response is a failure,
\* or it succeeds with metas for the answered places of the chunk
ChunkOutcomes ==
    [kind : {"raised", "failed"}, answered : {{}}]
        \cup [kind : {"ok"}, answered : SUBSET (1..ChunkSize)]

\* response.data.metas of a successful request
MetasOf(chunk, outcome) ==
    LET Answered(i) == i \in outcome.answered
    IN  [k \in 1..Len(SelectSeq([i \in 1..Len(chunk) |-> i], Answered)) |->
            chunk[SelectSeq([i \in 1..Len(chunk) |-> i], Answered)[k]]]

\* batch_get_meta_single: [] for an empty list, for an exception, for a failed
\* response and for a response without metas
batch_get_meta_single(ds, outcome) ==
    IF ds = <<>> THEN <<>>
    ELSE LET cut == IF Len(ds) > ChunkSize THEN SubSeq(ds, 1, ChunkSize) ELSE ds
         IN  IF outcome.kind # "ok" THEN <<>>
             ELSE IF MetasOf(cut, outcome) # <<>> THEN MetasOf(cut, outcome)
             ELSE <<>>

\* the loop of batch_get_meta from the c-th chunk on: all_metas.extend(..)
RECURSIVE batch_get_meta_loop(_, _, _, _)
batch_get_meta_loop(ds, outs, c, all_metas) ==
    IF c > NumChunks(ds) THEN all_metas
    ELSE batch_get_meta_loop(ds, outs, c + 1,
             all_metas \o batch_get_meta_single(ChunkOf(ds, c), outs[c]))

\* batch_get_meta
batch_get_meta(ds, outs) ==
    IF ds = <<>> THEN <<>> ELSE batch_get_meta_loop(ds, outs, 1, <<>>)

\* the loop of batch_get_meta_async from the c-th chunk on: `return []` for an
\* exception, a failed response and a response without metas
RECURSIVE batch_get_meta_async_loop(_, _, _, _)
batch_get_meta_async_loop(ds, outs, c, all_metas) ==
    IF c > NumChunks(ds) THEN all_metas
    ELSE IF outs[c].kind # "ok" THEN <<>>
    ELSE IF MetasOf(ChunkOf(ds, c), outs[c]) # <<>>
    THEN batch_get_meta_async_loop(ds, outs, c + 1,
             all_metas \o MetasOf(ChunkOf(ds, c), outs[c]))
    ELSE <<>>

\* doc_stats_utils.batch_get_meta_async (stats.py has a function of this name
\* too, modelled above)
chunked_batch_get_meta_async(ds, outs) ==
    IF ds = <<>> THEN <<>> ELSE batch_get_meta_async_loop(ds, outs, 1, <<>>)

\* a call of batch_get_meta on the list
batch_get_meta_call ==
    /\ pc = "meta"
    /\ m_sync = PyNone
    /\ m_sync' = [metas |-> batch_get_meta(m_docs, m_outcomes)]
    /\ UNCHANGED <<m_docs, m_outcomes, m_async>>
    /\ UNCHANGED <<walkVars, batchVars, docVars, v2Vars, thrVars, jwtVars, ngrokVars>>
    /\ UNCHANGED <<cfgVars, sortVars, authVars>>

\* a call of batch_get_meta_async on the same list, the chunks' requests
\* meeting the same outcomes
batch_get_meta_async_call ==
    /\ pc = "meta"
    /\ m_async = PyNone
    /\ m_async' = [metas |-> chunked_batch_get_meta_async(m_docs, m_outcomes)]
    /\ UNCHANGED <<m_docs, m_outcomes, m_sync>>
    /\ UNCHANGED <<walkVars, batchVars, docVars, v2Vars, thrVars, jwtVars, ngrokVars>>
    /\ UNCHANGED <<cfgVars, sortVars, authVars>>

MetaInit ==
    /\ pc = "meta"
    /\ \E n \in 0..MaxMetaDocs :
          /\ m_docs = [i \in 1..n |-> i]
          /\ m_outcomes \in [1..((n + ChunkSize - 1) \div ChunkSize) -> ChunkOutcomes]
    /\ m_sync = PyNone /\ m_async = PyNone
    /\ MAX_CONCURRENT_REQUESTS = InitialMaxConcurrent
    /\ BATCH_SIZE = InitialBatchSize /\ handlers = <<>>
    /\ all_doc_stats = <<>> /\ statistics = PyNone
    /\ session = <<>> /\ response = PyNone
    /\ ngrok_manager = NgrokManager(5000) /\ info = PyNone /\ connects = 0
    /\ jwt_secret = "s1" /\ jwt_token = PyNone /\ lifetime = 0 /\ verified = PyNone
    /\ now = 0 /\ throttler = Throttler(rate_limit, period)
    /\ permits = <<>> /\ requests = EmptyBag
    /\ parent = <<>> /\ roots = <<>>
    /\ q_parents = <<>> /\ q_nodes = <<>> /\ unfinished = 0
    /\ workers = EmptyBag /\ waiter = "none" /\ gen = "new"
    /\ yielded = <<>> /\ listFailed = FALSE /\ list_log = EmptyBag
    /\ b_in = <<>> /\ b_size = 1 /\ batch = <<>> /\ emitted = <<>>
    /\ b_pc = "idle" /\ consumed = <<>>
    /\ d_docs = <<>> /\ d_res = <<>> /\ d_dropped = <<>> /\ d_kept = <<>>
    /\ d_stats = <<>> /\ d_metas = <<>> /\ t_obj = PyNone /\ t_dict = PyNone
    /\ urls = <<>> /\ docs = <<>> /\ wiki_infos = <<>> /\ infos = <<>>
    /\ calls = <<>> /\ outcomes = <<>> /\ ret = <<>>

MetaNext ==
    \/ batch_get_meta_call
    \/ batch_get_meta_async_call

\* both functions applied to one list under the same outcomes of the chunks
SpecMeta == MetaInit /\ [][MetaNext]_vars

-----------------------------------------------------------------------------
(* Claims about the two metadata lookups of doc_stats_utils *)

\* the metas of the chunks from the c-th on whose request succeeded, in order
RECURSIVE SucceededMetas(_)
SucceededMetas(c) ==
    IF c > NumChunks(m_docs) THEN <<>>
    ELSE (IF m_outcomes[c].kind = "ok"
          THEN MetasOf(ChunkOf(m_docs, c), m_outcomes[c]) ELSE <<>>)
         \o SucceededMetas(c + 1)

\* C30: for one list and the same outcome of every chunk request,
\* batch_get_meta_async returns what batch_get_meta returns: the metas of the
\* chunks whose request succeeded, concatenated in chunk order.
C30_AsyncMetaEqualsSync ==
    (m_sync # PyNone /\ m_async # PyNone) =>
        /\ m_async.metas = m_sync.metas
        /\ m_sync.metas = SucceededMetas(1)

====
